---- MODULE Spec2Model ----
(***************************************************************************)
(* Model of the automated linearity test bench: the 7-stage sequencer      *)
(* (automation/test_sequencer.py, AutoTestSequencer), the per-site runner  *)
(* (cp_test/test_logic.py, CPTestRunner), the window operations they call   *)
(* (gui/main_window.py), the worker threads (gui/workers.py) and the test   *)
(* logic the workers run (core/test_logic.py).                              *)
(*                                                                         *)
(* One behaviour is one run.  The control flow (the Qt event loop of the    *)
(* GUI thread) executes one handler at a time; the power worker and the     *)
(* scan worker are threads of their own, so a handler that starts a worker  *)
(* and then connects to its finished_signal is two steps of the model, with *)
(* the worker free to run in between.                                       *)
(***************************************************************************)
EXTENDS Integers, Sequences, FiniteSets, TLC

VARIABLES
    mode,               \* which runner drives the run: "auto" (AutoTestSequencer) or "cp" (CPTestRunner)
    instruments,        \* InstrumentManager.instruments: alias -> state of the handle
    cfg,                \* the configuration files on disk
    latest,             \* the most recently created .txt in results/dc_linearity_result
    pwr_worker,         \* MainWindow.pwr_worker
    lin_worker,         \* MainWindow.lin_worker
    queued,             \* callbacks posted to the control flow (queued signals, single-shot timers)
    pc,                 \* position of the control flow of the run
    current_stage,      \* current_stage of the active runner
    is_running,         \* CPTestRunner.is_running
    test_data,          \* CPTestRunner.test_data
    saved,              \* rows appended to Wafer_Sort_Results.csv by this run
    finished_emitted,   \* CPTestRunner.finished was emitted
    power_on_requests,  \* calls of MainWindow.start_power_on
    power_off_requests, \* calls of MainWindow.start_power_off
    entered,            \* stages for which run_stage was entered
    scans_started,      \* stages for which start_linearity_test was called
    all_pass,           \* what check_current_limits printed last: "unset", "PASS", "FAIL"
    error_log,          \* stages whose setup logged an error (run_stage's except branches, or the traceback)
    args,               \* function-level specifications: the inputs of the call
    result,             \* function-level specifications: what the call returned
    recorder,           \* Wafer_Sort_Results.csv and the DataManager objects writing it
    scan,               \* one LinearityTestLogic.run_test call, point by point
    config_store,       \* DAC_Config.csv and Power_Config.yaml as ConfigManager rewrites them
    registry,           \* InstrumentManager.instruments with the handles it held
    threads             \* the control flow and the worker threads, command by command

vars == <<mode, instruments, cfg, latest, pwr_worker, lin_worker, queued, pc,
          current_stage, is_running, test_data, saved, finished_emitted,
          power_on_requests, power_off_requests, entered, scans_started, all_pass,
          error_log, args, result, recorder, scan, config_store, registry, threads>>

---------------------------------------------------------------------------
(* Program constants *)

\* AutoTestSequencer.max_stages, CPTestRunner.max_stages
max_stages == 7

\* cp_test/test_logic.py: the two debug constants and the limit.  The limit is
\* 1.0 (percent); nonlinearity values are counted in tenths of a percent here.
ABORT_ON_POWER_FAIL == FALSE
IGNORE_LINEARITY_FAIL == TRUE
NO_LINEARITY_LIMIT == 10

\* AutoTestSequencer._check_connections: required = ['DP1', 'DAC1', 'DM1']
required == {"DP1", "DAC1", "DM1"}

Aliases == {"DP1", "DAC1", "DM1"}

\* InstrumentManager.register_instrument: the class behind each alias
InstType(alias) ==
    IF alias = "DP1" THEN "DP" ELSE IF alias = "DAC1" THEN "DAC" ELSE "DM"

---------------------------------------------------------------------------
(* Bounds of the model *)

\* limit records in Power_limit_config.yaml: in a run, and in the
\* function-level specification of the two checks
MaxRunLimits == 1
MaxLimits == 2
\* nonlinearity values range over 0 .. NO_LINEARITY_LIMIT + MaxExcess
MaxExcess == 2

Stages == 1..max_stages

\* "absent": alias not in the registry; "unreachable": registered, not connected,
\* connect() returns False; "reachable": registered, not connected, connect()
\* returns True; "connected": registered and connected.
InstStates == {"absent", "unreachable", "reachable", "connected"}

\* every limit record has the window [1, 2] (units of 100 mA); measured
\* currents fall below it, on either end of it, or above it
LimitWindow == [min_current |-> 1, max_current |-> 2]
Currents == {0, 1, 2, 3}

\* a limit record of Power_limit_config.yaml; channel_ok: int(channel) parses
LimitRecords ==
    [instrument : {"DP1", "DM1"}, channel_ok : BOOLEAN,
     min_current : {LimitWindow.min_current}, max_current : {LimitWindow.max_current}]

SeqsUpTo(S, n) == UNION {[1..k -> S] : k \in 0..n}

LimitLists(n) == SeqsUpTo(LimitRecords, n)

\* nonlinearity (tenths of a percent) a scan of this run may produce
NLVals == {NO_LINEARITY_LIMIT, NO_LINEARITY_LIMIT + MaxExcess}

\* written_by: the stage of this run whose scan wrote the file, 0 for a file
\* that was in the folder before the run
NoFile == [exists |-> FALSE, nl |-> 0, tag |-> 0, written_by |-> 0]

NoWorker == [mode |-> "NONE", state |-> "none", hooked |-> FALSE]

---------------------------------------------------------------------------
(* Instruments *)

\* handle.connect() of a registered, unconnected handle
connect(st) == IF st = "reachable" THEN "connected" ELSE st

\* InstrumentManager.get_instrument followed by the callers' usual
\* "if not inst.connected: inst.connect()": the state the handle is left in
lookup_and_connect(insts, alias) ==
    [insts EXCEPT ![alias] = connect(insts[alias])]

\* MainWindow.connect_all_devices
connect_all_devices(insts) == [a \in Aliases |-> connect(insts[a])]

\* AutoTestSequencer._check_connections
check_connections(insts) == \A req \in required : insts[req] = "connected"

---------------------------------------------------------------------------
(* The power-limit checks *)

\* handle.measure_current(channel): only PowerSupply defines it; on any other
\* connected handle the call raises AttributeError
measure_raises(alias) == InstType(alias) # "DP"

\* variant of in_limits with both bounds exclusive
in_limits_strict(limit, measured) ==
    limit.min_current < measured /\ measured < limit.max_current

\* CPTestRunner.check_power_limits line 116, AutoTestSequencer.check_current_limits
\* line 131: min_current <= measured <= max_current
in_limits(limit, measured) ==
    limit.min_current <= measured /\ measured <= limit.max_current

\* AutoTestSequencer.check_current_limits, the loop over the limit records.
\* rows is the printed table, one status per record that reaches a print.
RECURSIVE check_current_limits_loop(_, _, _, _, _)
check_current_limits_loop(limits, meas, insts, k, acc) ==
    IF k > Len(limits) THEN acc
    ELSE LET limit == limits[k] IN
         IF ~limit.channel_ok
         THEN check_current_limits_loop(limits, meas, insts, k + 1, acc)
         ELSE IF insts[limit.instrument] # "connected"
         THEN check_current_limits_loop(limits, meas, insts, k + 1,
                  [acc EXCEPT !.rows = Append(@, [k |-> k, status |-> "N/A"])])
         ELSE IF measure_raises(limit.instrument)
         THEN check_current_limits_loop(limits, meas, insts, k + 1,
                  [acc EXCEPT !.rows = Append(@, [k |-> k, status |-> "Error"])])
         ELSE IF ~in_limits(limit, meas[k])
         THEN check_current_limits_loop(limits, meas, insts, k + 1,
                  [all_pass |-> FALSE,
                   rows |-> Append(acc.rows, [k |-> k, status |-> "FAIL"])])
         ELSE check_current_limits_loop(limits, meas, insts, k + 1,
                  [acc EXCEPT !.rows = Append(@, [k |-> k, status |-> "PASS"])])

\* AutoTestSequencer.check_current_limits: what it prints at the end
\* ("unset": no limits, nothing is printed)
check_current_limits(limits, meas, insts) ==
    IF limits = <<>> THEN [all_pass |-> "unset", rows |-> <<>>]
    ELSE LET r == check_current_limits_loop(limits, meas, insts, 1,
                      [all_pass |-> TRUE, rows |-> <<>>])
         IN [all_pass |-> IF r.all_pass THEN "PASS" ELSE "FAIL", rows |-> r.rows]

\* CPTestRunner.check_power_limits, the loop over the limit records.
\* rows records, for every record whose current was asked for, what became of it.
RECURSIVE check_power_limits_loop(_, _, _, _, _)
check_power_limits_loop(limits, meas, insts, k, acc) ==
    IF k > Len(limits) THEN acc
    ELSE LET limit == limits[k] IN
         IF ~limit.channel_ok
         THEN check_power_limits_loop(limits, meas, insts, k + 1, acc)
         ELSE IF insts[limit.instrument] # "connected"
         THEN check_power_limits_loop(limits, meas, insts, k + 1, acc)
         ELSE IF measure_raises(limit.instrument)
         THEN check_power_limits_loop(limits, meas, insts, k + 1,
                  [acc EXCEPT !.overall_status = "FAIL",
                              !.rows = Append(@, [k |-> k, status |-> "Error"])])
         ELSE LET m == meas[k]
                  mx == IF m > acc.max_current_measured THEN m
                        ELSE acc.max_current_measured
              IN IF ~in_limits(limit, m)
                 THEN check_power_limits_loop(limits, meas, insts, k + 1,
                          [overall_status |-> "FAIL", max_current_measured |-> mx,
                           rows |-> Append(acc.rows, [k |-> k, status |-> "FAIL"])])
                 ELSE check_power_limits_loop(limits, meas, insts, k + 1,
                          [acc EXCEPT !.max_current_measured = mx,
                                      !.rows = Append(@, [k |-> k, status |-> "PASS"])])

\* CPTestRunner.check_power_limits
check_power_limits(limits, meas, insts) ==
    IF limits = <<>>
    THEN [overall_status |-> "PASS", max_current_measured |-> 0, rows |-> <<>>]
    ELSE check_power_limits_loop(limits, meas, insts, 1,
             [overall_status |-> "PASS", max_current_measured |-> 0, rows |-> <<>>])

---------------------------------------------------------------------------
(* Stage results *)

\* the value read_latest_stage_result returns: None, {} or a dict of parsed
\* fields.  truthy is "if metrics:"; has_nl says whether 'Nonlinearity' was parsed.
NoMetrics == [truthy |-> FALSE, has_nl |-> FALSE, nl |-> 0]

\* CPTestRunner.read_latest_stage_result: the newest .txt of the result folder,
\* whoever wrote it; read_ok = FALSE is the "Error reading result file" branch.
read_latest_stage_result(file, read_ok) ==
    IF ~file.exists THEN NoMetrics
    ELSE IF ~read_ok THEN NoMetrics
    ELSE [truthy |-> TRUE, has_nl |-> TRUE, nl |-> file.nl]

\* variant of stage_result that compares with >= instead of >
stage_result_ge(metrics, ignore) ==
    IF metrics.truthy
    THEN LET nl == IF metrics.has_nl THEN metrics.nl ELSE 0 IN
         IF nl >= NO_LINEARITY_LIMIT
         THEN IF ignore THEN "PASS (Ignored)" ELSE "FAIL"
         ELSE "PASS"
    ELSE "FAIL"

\* CPTestRunner.on_stage_finished, lines 184-206: the stage's result string
stage_result(metrics, ignore) ==
    IF metrics.truthy
    THEN LET nl == IF metrics.has_nl THEN metrics.nl ELSE 0 IN
         IF nl > NO_LINEARITY_LIMIT
         THEN IF ignore THEN "PASS (Ignored)" ELSE "FAIL"
         ELSE "PASS"
    ELSE "FAIL"

---------------------------------------------------------------------------
(* The result recorder's schema and the site record's keys *)

StageFields == {"Gain_Config", "Input_Amp", "Max_INL", "Max_DNL", "Result"}

\* DataManager.__init__: self.fieldnames
fieldnames ==
    {<<0, "Test_Time">>, <<0, "Site_ID">>, <<0, "Row">>, <<0, "Col">>,
     <<0, "Final_Result">>, <<0, "Fail_Reason">>,
     <<0, "Power_Current">>, <<0, "Power_Check_Result">>}
    \cup (Stages \X StageFields)

\* the keys of CPTestRunner.test_data (<<0, k>> is the key k, <<i, k>> the key
\* S<i>_k): those of __init__, those on_power_on_finished writes, and per
\* stage those on_stage_finished writes
keys_of(td) ==
    {<<0, "Site_ID">>, <<0, "Row">>, <<0, "Col">>,
     <<0, "Final_Result">>, <<0, "Fail_Reason">>}
    \cup (IF td.Power_Check_Result # "UNSET"
          THEN {<<0, "Power_Current">>, <<0, "Power_Check_Result">>} ELSE {})
    \cup ({i \in Stages : td.Result[i] # "UNSET"}
              \X {"Gain_Config", "Input_Amp", "Result"})
    \cup (td.metric_stages
              \X {"Gain", "Offset", "No_Linearity", "Max_INL", "Max_DNL"})

\* DataManager.save_result: csv.DictWriter.writerow raises ValueError for a
\* dict with a key outside fieldnames (Test_Time is added first, and is one)
save_result_raises(td) == ~(keys_of(td) \subseteq fieldnames)

---------------------------------------------------------------------------
(* Window operations and worker bodies *)

\* the variables a handler or a worker may change, as one record
Ctl ==
    [instruments |-> instruments, latest |-> latest, pwr_worker |-> pwr_worker,
     lin_worker |-> lin_worker, queued |-> queued, pc |-> pc,
     current_stage |-> current_stage, is_running |-> is_running,
     test_data |-> test_data, saved |-> saved,
     finished_emitted |-> finished_emitted,
     power_on_requests |-> power_on_requests,
     power_off_requests |-> power_off_requests,
     entered |-> entered, scans_started |-> scans_started, all_pass |-> all_pass,
     error_log |-> error_log]

Becomes(t) ==
    /\ instruments' = t.instruments
    /\ latest' = t.latest
    /\ pwr_worker' = t.pwr_worker
    /\ lin_worker' = t.lin_worker
    /\ queued' = t.queued
    /\ pc' = t.pc
    /\ current_stage' = t.current_stage
    /\ is_running' = t.is_running
    /\ test_data' = t.test_data
    /\ saved' = t.saved
    /\ finished_emitted' = t.finished_emitted
    /\ power_on_requests' = t.power_on_requests
    /\ power_off_requests' = t.power_off_requests
    /\ entered' = t.entered
    /\ scans_started' = t.scans_started
    /\ all_pass' = t.all_pass
    /\ error_log' = t.error_log
    /\ UNCHANGED <<mode, cfg, args, result, recorder, scan, config_store, registry, threads>>

\* MainWindow.start_power_on: a new PowerWorker("ON"), started
start_power_on(s) ==
    [s EXCEPT !.pwr_worker = [mode |-> "ON", state |-> "running", hooked |-> FALSE],
              !.power_on_requests = @ + 1]

\* MainWindow.start_power_off: a new PowerWorker("OFF"), started
start_power_off(s) ==
    [s EXCEPT !.pwr_worker = [mode |-> "OFF", state |-> "running", hooked |-> FALSE],
              !.power_off_requests = @ + 1]

\* PowerTestLogic.run_power_sequence: the handles it leaves connected.  An
\* empty Power_on_config.yaml returns at once; otherwise each item looks its
\* supply up and connects it when needed.
run_power_sequence(insts, power_on_config) ==
    IF power_on_config = "empty" THEN insts
    ELSE lookup_and_connect(insts, "DP1")

\* ConfigManager.modify_dac_config / modify_power_config: whether rewriting the
\* two files raises: a DAC_Config.csv without a Channel column, a
\* Power_Config.yaml item without a channel, or open() failing (io_error)
modify_raises(files, io_error) ==
    io_error \/ files.dac_config = "malformed" \/ files.power_config = "malformed"

\* MainWindow.apply_dac_config: returns early on an empty file, an unknown
\* alias or a failed connect; otherwise the first group's range command is
\* dac.send_raw_command(...), which the DAC class does not define
apply_dac_config(insts, dac_config) ==
    IF dac_config = "empty" THEN [insts |-> insts, raised |-> FALSE]
    ELSE LET after == lookup_and_connect(insts, "DAC1") IN
         IF after["DAC1"] # "connected" THEN [insts |-> after, raised |-> FALSE]
         ELSE [insts |-> after, raised |-> dac_config = "valid"]

\* MainWindow.apply_power_config: every item is handled inside try/except
apply_power_config(insts, power_config) ==
    IF power_config = "valid" THEN lookup_and_connect(insts, "DP1") ELSE insts

\* MainWindow.start_linearity_test: a new LinearityWorker, started
start_linearity_test(s) ==
    [s EXCEPT !.lin_worker = [state |-> "running", hooked |-> FALSE],
              !.scans_started = @ \cup {s.current_stage}]

\* LinearityTestLogic.run_test up to the scan: the meter, then the source, is
\* looked up and connected; None is returned as soon as one is missing
run_test_connect(insts) ==
    LET with_dm == lookup_and_connect(insts, "DM1") IN
    IF with_dm["DM1"] # "connected" THEN [insts |-> with_dm, ok |-> FALSE]
    ELSE LET with_src == lookup_and_connect(with_dm, "DAC1") IN
         [insts |-> with_src, ok |-> with_src["DAC1"] = "connected"]

\* AutoTestSequencer.tag_latest_result: the newest .txt gets the prefix
\* Stage<i>_ unless its name already starts with "Stage"
tag_latest_result(file, i) ==
    IF file.exists /\ file.tag = 0 THEN [file EXCEPT !.tag = i] ELSE file

---------------------------------------------------------------------------
(* AutoTestSequencer *)

\* AutoTestSequencer.abort_sequence
abort_sequence(s) == [start_power_off(s) EXCEPT !.pc = "aborted"]

\* AutoTestSequencer.finish_sequence
finish_sequence(s) == [start_power_off(s) EXCEPT !.pc = "done"]

\* AutoTestSequencer.start, up to and including window.start_power_on()
seq_start_body(s) ==
    LET insts == connect_all_devices(s.instruments) IN
    IF ~check_connections(insts)
    THEN [s EXCEPT !.instruments = insts, !.pc = "failed_fast"]
    ELSE [start_power_on([s EXCEPT !.instruments = insts]) EXCEPT !.pc = "attach_pwr"]

\* AutoTestSequencer.start, lines 53-54: pwr_worker exists (start_power_on set
\* it), so the handler is connected now
seq_attach_power_on_body(s) ==
    [s EXCEPT !.pwr_worker.hooked = TRUE, !.pc = "wait"]

\* variant of on_power_on_finished that aborts the sequence on a failed check
seq_on_power_on_finished_abort_on_fail(s, limits, meas) ==
    LET chk == check_current_limits(limits, meas, s.instruments).all_pass
        s1  == [s EXCEPT !.pwr_worker.hooked = FALSE, !.all_pass = chk,
                         !.queued = @ \ {"on_power_on_finished"}]
    IN IF chk = "FAIL" THEN abort_sequence(s1)
       ELSE [s1 EXCEPT !.queued = @ \cup {"run_stage"}]

\* AutoTestSequencer.on_power_on_finished
seq_on_power_on_finished_body(s, limits, meas) ==
    [s EXCEPT !.pwr_worker.hooked = FALSE,
              !.all_pass = check_current_limits(limits, meas, s.instruments).all_pass,
              !.queued = (@ \ {"on_power_on_finished"}) \cup {"run_stage"}]

\* AutoTestSequencer.run_stage, up to and including window.start_linearity_test()
seq_run_stage_body(s, files, io_error) ==
    LET i  == s.current_stage
        s1 == [s EXCEPT !.queued = @ \ {"run_stage"}, !.entered = @ \cup {i}]
    IN IF modify_raises(files, io_error)
       THEN abort_sequence([s1 EXCEPT !.error_log = @ \cup {i}])
       ELSE LET dac == apply_dac_config(s1.instruments, files.dac_config) IN
            IF dac.raised
            THEN [s1 EXCEPT !.instruments = dac.insts, !.error_log = @ \cup {i},
                            !.pc = "crashed"]
            ELSE [start_linearity_test(
                      [s1 EXCEPT !.instruments =
                           apply_power_config(dac.insts, files.power_config)])
                  EXCEPT !.pc = "attach_lin"]

\* AutoTestSequencer.run_stage, lines 195-196
seq_attach_lin_body(s) ==
    [s EXCEPT !.lin_worker.hooked = TRUE, !.pc = "wait"]

\* variant of on_stage_finished that compares with < instead of <=
seq_on_stage_finished_body_lt(s) ==
    LET s1 == [s EXCEPT !.lin_worker.hooked = FALSE,
                        !.queued = @ \ {"on_stage_finished"},
                        !.latest = tag_latest_result(@, s.current_stage),
                        !.current_stage = @ + 1]
    IN IF s1.current_stage < max_stages
       THEN [s1 EXCEPT !.queued = @ \cup {"run_stage"}]
       ELSE finish_sequence(s1)

\* AutoTestSequencer.on_stage_finished
seq_on_stage_finished_body(s) ==
    LET s1 == [s EXCEPT !.lin_worker.hooked = FALSE,
                        !.queued = @ \ {"on_stage_finished"},
                        !.latest = tag_latest_result(@, s.current_stage),
                        !.current_stage = @ + 1]
    IN IF s1.current_stage <= max_stages
       THEN [s1 EXCEPT !.queued = @ \cup {"run_stage"}]
       ELSE finish_sequence(s1)

---------------------------------------------------------------------------
(* CPTestRunner *)

\* CPTestRunner.finish_test
finish_test(s) ==
    LET s1 == start_power_off(s) IN
    IF save_result_raises(s1.test_data)
    THEN [s1 EXCEPT !.pc = "crashed"]
    ELSE [s1 EXCEPT !.saved = Append(@, s1.test_data),
                    !.finished_emitted = TRUE,
                    !.is_running = FALSE,
                    !.pc = "done"]

\* variant of abort_test that marks the record but does not go to finish_test
abort_test_no_finish(s, reason) ==
    [s EXCEPT !.is_running = FALSE,
              !.test_data.Final_Result = "FAIL",
              !.test_data.Fail_Reason = reason]

\* CPTestRunner.abort_test
abort_test(s, reason) ==
    finish_test([s EXCEPT !.is_running = FALSE,
                          !.test_data.Final_Result = "FAIL",
                          !.test_data.Fail_Reason = reason])

\* CPTestRunner.start, up to and including window.start_power_on()
cp_start_body(s) ==
    [start_power_on([s EXCEPT !.is_running = TRUE]) EXCEPT !.pc = "attach_pwr"]

\* CPTestRunner.start, lines 51-52
cp_attach_power_on_body(s) ==
    [s EXCEPT !.pwr_worker.hooked = TRUE, !.pc = "wait"]

\* variant of run_stage whose except-branch, after stage 1, records the stage
\* as FAIL and goes on with the next stage
cp_run_stage_body_continue(s, files, io_error) ==
    IF ~s.is_running THEN s
    ELSE LET i  == s.current_stage
             s1 == [s EXCEPT !.entered = @ \cup {i}]
             dac == apply_dac_config(s1.instruments, files.dac_config)
         IN IF modify_raises(files, io_error) \/ dac.raised
            THEN LET s2 == [s1 EXCEPT !.error_log = @ \cup {i}] IN
                 IF i = 1 THEN abort_test(s2, "Config Error")
                 ELSE IF i < max_stages
                 THEN [s2 EXCEPT !.test_data.Result[i] = "FAIL",
                                 !.current_stage = i + 1,
                                 !.queued = @ \cup {"run_stage"}]
                 ELSE finish_test([s2 EXCEPT !.test_data.Result[i] = "FAIL"])
            ELSE [start_linearity_test(
                      [s1 EXCEPT !.instruments =
                           apply_power_config(dac.insts, files.power_config)])
                  EXCEPT !.pc = "attach_lin"]

\* CPTestRunner.run_stage, up to and including window.start_linearity_test()
cp_run_stage_body(s, files, io_error) ==
    IF ~s.is_running THEN s
    ELSE LET i  == s.current_stage
             s1 == [s EXCEPT !.entered = @ \cup {i}]
         IN IF modify_raises(files, io_error)
            THEN abort_test([s1 EXCEPT !.error_log = @ \cup {i}], "Config Error")
            ELSE LET dac == apply_dac_config(s1.instruments, files.dac_config)
                     s2  == [s1 EXCEPT !.instruments = dac.insts]
                 IN IF dac.raised
                    THEN abort_test([s2 EXCEPT !.error_log = @ \cup {i}], "Config Error")
                    ELSE [start_linearity_test(
                              [s2 EXCEPT !.instruments =
                                   apply_power_config(dac.insts, files.power_config)])
                          EXCEPT !.pc = "attach_lin"]

\* CPTestRunner.run_stage, lines 164-165
cp_attach_lin_body(s) ==
    [s EXCEPT !.lin_worker.hooked = TRUE, !.pc = "wait"]

\* CPTestRunner.on_power_on_finished
cp_on_power_on_finished_body(s, files, limits, meas, io_error) ==
    LET s1 == [s EXCEPT !.pwr_worker.hooked = FALSE,
                        !.queued = @ \ {"on_power_on_finished"}]
    IN IF ~s1.is_running THEN s1
       ELSE LET chk == check_power_limits(limits, meas, s1.instruments)
                s2  == [s1 EXCEPT !.test_data.Power_Check_Result = chk.overall_status]
            IN IF chk.overall_status = "FAIL"
               THEN IF ABORT_ON_POWER_FAIL
                    THEN finish_test([s2 EXCEPT !.test_data.Final_Result = "FAIL",
                                                !.test_data.Fail_Reason = "Power_Limit"])
                    ELSE cp_run_stage_body(
                             [s2 EXCEPT !.test_data.Power_Check_Result = "FAIL (Ignored)"],
                             files, io_error)
               ELSE cp_run_stage_body(s2, files, io_error)

\* variants of the first-stage fuse: one that never trips, one that trips on
\* a FAIL of any stage
stage1_fuse_never(i, res) == FALSE
stage1_fuse_any(i, res) == res = "FAIL"

\* CPTestRunner.on_stage_finished, line 210: the first-stage fuse
stage1_fuse(i, res) == i = 1 /\ res = "FAIL"

\* CPTestRunner.on_stage_finished
cp_on_stage_finished_body(s, read_ok) ==
    LET s1 == [s EXCEPT !.lin_worker.hooked = FALSE,
                        !.queued = @ \ {"on_stage_finished"}]
    IN IF ~s1.is_running THEN s1
       ELSE LET i       == s1.current_stage
                metrics == read_latest_stage_result(s1.latest, read_ok)
                res     == stage_result(metrics, IGNORE_LINEARITY_FAIL)
                s2      == [s1 EXCEPT
                              !.test_data.metric_stages =
                                  IF metrics.truthy THEN @ \cup {i} ELSE @,
                              !.test_data.Final_Result =
                                  IF metrics.truthy THEN @ ELSE "FAIL",
                              !.test_data.Result[i] = res]
            IN IF stage1_fuse(i, res)
               THEN finish_test([s2 EXCEPT !.test_data.Final_Result = "FAIL",
                                           !.test_data.Fail_Reason = "Stage1_Fail"])
               ELSE LET s3 == [s2 EXCEPT !.current_stage = @ + 1] IN
                    IF s3.current_stage <= max_stages
                    THEN [s3 EXCEPT !.queued = @ \cup {"run_stage"}]
                    ELSE finish_test(
                             [s3 EXCEPT !.test_data.Final_Result =
                                  IF @ = "PENDING" THEN "PASS" ELSE @])

---------------------------------------------------------------------------
(* Worker threads *)

\* PowerWorker.run: the power sequence, then finished_signal.emit(); the
\* sequencer's handler is queued when it is connected at that moment
PowerWorker_run_body(s, files) ==
    [s EXCEPT !.instruments = run_power_sequence(@, files.power_on_config),
              !.pwr_worker.state = "finished",
              !.queued = IF s.pwr_worker.hooked
                         THEN @ \cup {"on_power_on_finished"} ELSE @]

\* LinearityWorker.run: run_test (a complete scan writes a new result file),
\* then finished_signal.emit()
LinearityWorker_run_body(s, nl) ==
    LET c == run_test_connect(s.instruments) IN
    [s EXCEPT !.instruments = c.insts,
              !.latest = IF c.ok
                         THEN [exists |-> TRUE, nl |-> nl, tag |-> 0,
                               written_by |-> s.current_stage]
                         ELSE @,
              !.lin_worker.state = "finished",
              !.queued = IF s.lin_worker.hooked
                         THEN @ \cup {"on_stage_finished"} ELSE @]

---------------------------------------------------------------------------
(* The state machine *)

ConfigFiles ==
    [dac_config : {"empty", "malformed", "valid"},
     power_config : {"valid", "malformed"},
     power_on_config : {"empty", "valid"}]

NoCall == [fn |-> "none"]
NoResult == [by |-> "none", status |-> "none", rows |-> <<>>, value |-> 0]
NoRecorder == [exists |-> FALSE, lines |-> <<>>, managers |-> 0, calls |-> 0, accepted |-> <<>>]
NoScan == [state |-> "none"]
NoStore == [state |-> "none"]
NoRegistry == [state |-> "none"]
NoThreads == [phase |-> "none"]

\* the runner, the window and the workers as constructed
RunIdle ==
    /\ pwr_worker = NoWorker
    /\ lin_worker = [state |-> "none", hooked |-> FALSE]
    /\ queued = {}
    /\ pc = "idle"
    /\ current_stage = 1
    /\ is_running = FALSE
    /\ test_data = [Final_Result |-> "PENDING", Fail_Reason |-> "",
                    Power_Check_Result |-> "UNSET",
                    Result |-> [i \in Stages |-> "UNSET"],
                    metric_stages |-> {}]
    /\ saved = <<>>
    /\ finished_emitted = FALSE
    /\ power_on_requests = 0
    /\ power_off_requests = 0
    /\ entered = {}
    /\ scans_started = {}
    /\ all_pass = "unset"
    /\ error_log = {}

Init ==
    /\ mode \in {"auto", "cp"}
    /\ instruments \in [Aliases -> InstStates]
    /\ cfg \in ConfigFiles
    /\ latest \in {NoFile} \cup [exists : {TRUE}, nl : NLVals, tag : {0}, written_by : {0}]
    /\ RunIdle
    /\ args = NoCall
    /\ result = NoResult
    /\ recorder = NoRecorder
    /\ scan = NoScan
    /\ config_store = NoStore
    /\ registry = NoRegistry
    /\ threads = NoThreads

seq_start ==
    /\ mode = "auto" /\ pc = "idle"
    /\ Becomes(seq_start_body(Ctl))

seq_attach_power_on ==
    /\ mode = "auto" /\ pc = "attach_pwr"
    /\ Becomes(seq_attach_power_on_body(Ctl))

seq_on_power_on_finished ==
    /\ mode = "auto" /\ pc = "wait" /\ "on_power_on_finished" \in queued
    /\ \E limits \in LimitLists(MaxRunLimits) :
       \E meas \in [1..Len(limits) -> Currents] :
           Becomes(seq_on_power_on_finished_body(Ctl, limits, meas))

seq_run_stage ==
    /\ mode = "auto" /\ pc = "wait" /\ "run_stage" \in queued
    /\ \E io_error \in BOOLEAN : Becomes(seq_run_stage_body(Ctl, cfg, io_error))

seq_attach_lin ==
    /\ mode = "auto" /\ pc = "attach_lin"
    /\ Becomes(seq_attach_lin_body(Ctl))

seq_on_stage_finished ==
    /\ mode = "auto" /\ pc = "wait" /\ "on_stage_finished" \in queued
    /\ Becomes(seq_on_stage_finished_body(Ctl))

cp_start ==
    /\ mode = "cp" /\ pc = "idle"
    /\ Becomes(cp_start_body(Ctl))

cp_attach_power_on ==
    /\ mode = "cp" /\ pc = "attach_pwr"
    /\ Becomes(cp_attach_power_on_body(Ctl))

cp_on_power_on_finished ==
    /\ mode = "cp" /\ pc = "wait" /\ "on_power_on_finished" \in queued
    /\ \E limits \in LimitLists(MaxRunLimits) :
       \E meas \in [1..Len(limits) -> Currents] : \E io_error \in BOOLEAN :
           Becomes(cp_on_power_on_finished_body(Ctl, cfg, limits, meas, io_error))

cp_run_stage ==
    /\ mode = "cp" /\ pc = "wait" /\ "run_stage" \in queued
    /\ \E io_error \in BOOLEAN :
           Becomes(cp_run_stage_body([Ctl EXCEPT !.queued = @ \ {"run_stage"}],
                                     cfg, io_error))

cp_attach_lin ==
    /\ mode = "cp" /\ pc = "attach_lin"
    /\ Becomes(cp_attach_lin_body(Ctl))

cp_on_stage_finished ==
    /\ mode = "cp" /\ pc = "wait" /\ "on_stage_finished" \in queued
    /\ \E read_ok \in BOOLEAN :
           Becomes(cp_on_stage_finished_body(Ctl, read_ok))

PowerWorker_run ==
    /\ pwr_worker.state = "running"
    /\ Becomes(PowerWorker_run_body(Ctl, cfg))

LinearityWorker_run ==
    /\ lin_worker.state = "running"
    /\ \E nl \in NLVals : Becomes(LinearityWorker_run_body(Ctl, nl))

Next ==
    \/ seq_start
    \/ seq_attach_power_on
    \/ seq_on_power_on_finished
    \/ seq_run_stage
    \/ seq_attach_lin
    \/ seq_on_stage_finished
    \/ cp_start
    \/ cp_attach_power_on
    \/ cp_on_power_on_finished
    \/ cp_run_stage
    \/ cp_attach_lin
    \/ cp_on_stage_finished
    \/ PowerWorker_run
    \/ LinearityWorker_run

Spec == Init /\ [][Next]_vars

---------------------------------------------------------------------------
(* Arithmetic of the scan and of the configuration (core/test_logic.py,     *)
(* core/utils.py, automation/config_manager.py)                             *)

\* pairs (idx, total_steps), total_steps < 100, for which the double-precision
\* value (idx + 1) / total_steps * 100 lies just below the integer it equals
\* in exact arithmetic, so that int() gives one less
DoubleShortfall == {<<28, 50>>}

\* variant of the progress value that rounds to the nearest integer, halves up
progress_value_round(idx, total_steps) ==
    (200 * (idx + 1) + total_steps) \div (2 * total_steps)

\* variant of the progress value computed from idx instead of idx + 1
progress_value_before(idx, total_steps) ==
    (100 * idx) \div total_steps

\* run_test line 206: int((idx + 1) / total_steps * 100)
progress_value(idx, total_steps) ==
    ((100 * (idx + 1)) \div total_steps)
        - (IF <<idx, total_steps>> \in DoubleShortfall THEN 1 ELSE 0)

\* Voltages are counted in quarters of a volt, so that the ranges 2.5, 5,
\* 10 and 20 V are the integers 10, 20, 40 and 80.
dac_resolution == 65535

\* the range strings for which float() succeeds and that the chip knows
DacRanges == {10, 20, 40, 80}

Min(a, b) == IF a < b THEN a ELSE b
Max(a, b) == IF a > b THEN a ELSE b

\* int(x) of Python for the quotient num / den, den > 0: towards zero
int_div(num, den) == IF num >= 0 THEN num \div den ELSE -((-num) \div den)

\* round(x) of Python 3 for the quotient num / den, num >= 0, den > 0: to the
\* nearest integer, a tie to the even one
round_div(num, den) ==
    LET q == num \div den
        r == num % den
    IN IF 2 * r < den THEN q
       ELSE IF 2 * r > den THEN q + 1
       ELSE IF q % 2 = 0 THEN q ELSE q + 1

\* utils.calculate_dac_code for a range string that parses
calculate_dac_code(v_range, desired_v) ==
    LET bipolar  == -v_range <= desired_v /\ desired_v <= v_range
        unipolar == ~bipolar /\ 0 <= desired_v /\ desired_v <= v_range
        min_v    == IF unipolar THEN 0 ELSE -v_range
        max_v    == v_range
        voltage_span == max_v - min_v
    IN IF voltage_span = 0 THEN 0
       ELSE Max(0, Min(int_div((desired_v - min_v) * dac_resolution, voltage_span),
                       65535))

\* LinearityTestLogic._set_source_value, DAC source: the code handed to
\* set_output; the range is the literal "10" whatever the channel's range is
set_source_value(v_range, voltage) == calculate_dac_code(40, voltage)

\* MainWindow.apply_dac_config lines 464-466: the code handed to set_output
apply_dac_config_code(v_range, target_v) == calculate_dac_code(v_range, target_v)

\* calculate_gear_code, gear_to_code_map.get(float(g), 0)
gear_to_code_map(g) ==
    CASE g = 10 -> 14
      [] g = 20 -> 9
      [] g = 40 -> 10
      [] g = 80 -> 12
      [] OTHER -> 0

\* variant of calculate_gear_code that puts the first channel in the top nibble
calculate_gear_code_reversed(gears) ==
    IF Len(gears) # 4 THEN 0
    ELSE gear_to_code_map(gears[1]) * 4096 + gear_to_code_map(gears[2]) * 256
         + gear_to_code_map(gears[3]) * 16 + gear_to_code_map(gears[4])

\* utils.calculate_gear_code (config_loader._calculate_gear computes the same
\* word): (code3 << 12) | (code2 << 8) | (code1 << 4) | code0, the codes being
\* below 16
calculate_gear_code(gears) ==
    IF Len(gears) # 4 THEN 0
    ELSE gear_to_code_map(gears[4]) * 4096 + gear_to_code_map(gears[3]) * 256
         + gear_to_code_map(gears[2]) * 16 + gear_to_code_map(gears[1])

\* MainWindow.apply_dac_config lines 427-428 and 449-450, and
\* config_loader.generate_full_config_commands: the group that starts at
\* channel i, its chip and its range register
range_group(i) ==
    [channels |-> {i, i + 1, i + 2, i + 3},
     dac_chip_num |-> IF i < 16 THEN 0 ELSE 1,
     register_addr |-> 13 - ((i % 16) \div 4)]

\* config_loader._voltage_to_dac_code
voltage_to_dac_code(voltage, gear) ==
    IF gear = 0 THEN 0
    ELSE round_div((gear + Max(-gear, Min(gear, voltage))) * 65535, 2 * gear)

\* Scan amplitudes are counted in units of 10^-8 V and scan steps in units of
\* 10^-10 V, so that (2 * v_in_amp) / 100 is the integer 2 * v_in_amp; the
\* text fields of the window hold the start in 10^-4 V and the step in 10^-6 V.
VIN_SAFETY_LIMIT == 50000000

\* AutoTestSequencer.gain_map, in tenths of a dB; a missing stage reads 0
gain_map(stage_index) ==
    CASE stage_index = 1 -> -96
      [] stage_index = 2 -> -36
      [] stage_index = 3 -> 0
      [] stage_index = 4 -> 20
      [] stage_index = 5 -> 40
      [] stage_index = 6 -> 60
      [] stage_index = 7 -> 80
      [] OTHER -> 0

\* 0.25 / 10 ** (gain_db / 20.0) in double precision, to the nearest 10^-8 V
v_in_amp_of(gain_db) ==
    CASE gain_db = -96 -> 75498793
      [] gain_db = -36 -> 37839031
      [] gain_db = 0 -> 25000000
      [] gain_db = 20 -> 19858206
      [] gain_db = 40 -> 15773934
      [] gain_db = 60 -> 12529681
      [] gain_db = 80 -> 9952679

\* AutoTestSequencer.calculate_scan_params
calculate_scan_params(stage_index) ==
    LET raw      == v_in_amp_of(gain_map(stage_index))
        v_in_amp == IF raw > VIN_SAFETY_LIMIT THEN VIN_SAFETY_LIMIT ELSE raw
    IN [start_v |-> -v_in_amp, step_v |-> 2 * v_in_amp, points |-> 101,
        warned |-> raw > VIN_SAFETY_LIMIT]

\* run_stage lines 170-172 and start_linearity_test lines 506-508: the
\* parameters pass through the text fields as f"{start_v:.4f}",
\* f"{step_v:.6f}" and str(points), and the scan is started on what the
\* fields hold
scan_fields(params) ==
    [start_v |-> round_div(params.start_v, 10000),
     step_v  |-> round_div(params.step_v, 10000),
     points  |-> params.points]

\* LinearityTestLogic.run_test line 177: start_v + (i * step_v), in 10^-6 V
current_val(fields, i) == 100 * fields.start_v + i * fields.step_v

\* ---- the linearity analyzer (core/utils.py) ----
\* Its numbers are exact fractions [n, d] in lowest terms with d > 0; a
\* division by zero gives, as in numpy, an infinity or a nan: d = 0.
RECURSIVE gcd(_, _)
gcd(a, b) == IF b = 0 THEN a ELSE gcd(b, a % b)

abs(a) == IF a < 0 THEN -a ELSE a

Frac(n, d) ==
    IF d = 0 THEN [n |-> IF n > 0 THEN 1 ELSE IF n < 0 THEN -1 ELSE 0, d |-> 0]
    ELSE LET g == gcd(abs(n), abs(d))
             sg == IF d < 0 THEN -1 ELSE 1
         IN [n |-> sg * (n \div g), d |-> abs(d) \div g]

RAdd(a, b) == Frac(a.n * b.d + b.n * a.d, a.d * b.d)
RSub(a, b) == Frac(a.n * b.d - b.n * a.d, a.d * b.d)
RMul(a, b) == Frac(a.n * b.n, a.d * b.d)
RDiv(a, b) == Frac(a.n * b.d, a.d * b.n)
RLess(a, b) == a.n * b.d < b.n * a.d
RAbs(a) == [n |-> abs(a.n), d |-> a.d]

RECURSIVE Sum(_)
Sum(seq) == IF seq = <<>> THEN 0 ELSE Head(seq) + Sum(Tail(seq))

\* the value calculate_linearity_metrics returns for a short series
None == [none |-> TRUE]

\* variant of the length guard that lets a single point through
short_series_below_one(x) == Len(x) < 1

\* calculate_linearity_metrics lines 121-122: if len(x) < 2: return None
short_series(x) == Len(x) < 2

\* variant of the fit: a line through the origin
lstsq_through_origin(x, y) ==
    [gain   |-> Frac(Sum([k \in 1..Len(x) |-> x[k] * y[k]]),
                  Sum([k \in 1..Len(x) |-> x[k] * x[k]])),
     offset |-> Frac(0, 1)]

\* np.linalg.lstsq(A, y, rcond=None)[0] for A = [x, 1]: the least-squares
\* line, and for a series whose x are all equal (A of rank 1) the solution of
\* least norm
lstsq(x, y) ==
    LET n   == Len(x)
        Sx  == Sum(x)
        Sy  == Sum(y)
        Sxx == Sum([k \in 1..n |-> x[k] * x[k]])
        Sxy == Sum([k \in 1..n |-> x[k] * y[k]])
        det == n * Sxx - Sx * Sx
        c   == x[1]
    IN IF det # 0
       THEN [gain |-> Frac(n * Sxy - Sx * Sy, det), offset |-> Frac(Sy * Sxx - Sx * Sxy, det)]
       ELSE [gain |-> Frac(c * Sy, n * (c * c + 1)), offset |-> Frac(Sy, n * (c * c + 1))]

\* variant of lsb_ideal that keeps a zero product
lsb_ideal_unguarded(x, gain) ==
    [eps |-> FALSE, val |-> RMul(Frac(x[Len(x)] - x[1], Len(x) - 1), gain)]

\* lines 137-144: np.mean(np.diff(x)) * gain, 1.0 for a single point, and
\* 1e-9 (eps) in place of a zero
lsb_ideal(x, gain) ==
    LET val == IF Len(x) > 1 THEN RMul(Frac(x[Len(x)] - x[1], Len(x) - 1), gain)
               ELSE Frac(1, 1)
    IN IF val.n = 0 /\ val.d # 0 THEN [eps |-> TRUE, val |-> Frac(0, 1)]
       ELSE [eps |-> FALSE, val |-> val]

\* a quotient by lsb_ideal is fin + big * 10^9: big is the part that the
\* division by 1e-9 scales up
over_lsb(r, lsb) ==
    IF lsb.eps THEN [fin |-> Frac(0, 1), big |-> r]
    ELSE [fin |-> RDiv(r, lsb.val), big |-> Frac(0, 1)]

EAbs(v) ==
    IF v.big.n < 0 \/ (v.big.n = 0 /\ v.fin.n < 0)
    THEN [fin |-> Frac(-v.fin.n, v.fin.d), big |-> Frac(-v.big.n, v.big.d)]
    ELSE v

ELess(a, b) == RLess(a.big, b.big) \/ (a.big = b.big /\ RLess(a.fin, b.fin))

\* np.max(np.abs(seq))
EMaxAbs(seq) ==
    CHOOSE m \in {EAbs(seq[k]) : k \in 1..Len(seq)} :
        \A k \in 1..Len(seq) : ~ELess(m, EAbs(seq[k]))

\* variant of the DNL without the unit step taken off
dnl_at_no_unit(y, lsb, i) ==
    IF i = 1 THEN [fin |-> Frac(0, 1), big |-> Frac(0, 1)]
    ELSE over_lsb(Frac(y[i] - y[i - 1], 1), lsb)

\* lines 150-154: dnl = np.zeros(len(y)), and for i in 1..len(y)-1
\* dnl[i] = (y[i] - y[i-1]) / lsb_ideal - 1 (the sequences here start at 1)
dnl_at(y, lsb, i) ==
    IF i = 1 THEN [fin |-> Frac(0, 1), big |-> Frac(0, 1)]
    ELSE LET q == over_lsb(Frac(y[i] - y[i - 1], 1), lsb)
         IN [fin |-> RSub(q.fin, Frac(1, 1)), big |-> q.big]

\* utils.calculate_linearity_metrics
calculate_linearity_metrics(x, y) ==
    IF short_series(x) THEN None
    ELSE LET n       == Len(x)
             fit     == lstsq(x, y)
             y_fit   == [k \in 1..n |-> RAdd(RMul(fit.gain, Frac(x[k], 1)), fit.offset)]
             lsb     == lsb_ideal(x, fit.gain)
             inl     == [k \in 1..n |-> over_lsb(RSub(Frac(y[k], 1), y_fit[k]), lsb)]
             dnl     == [k \in 1..n |-> dnl_at(y, lsb, k)]
             ymax    == CHOOSE m \in {y[k] : k \in 1..n} : \A k \in 1..n : y[k] <= m
             ymin    == CHOOSE m \in {y[k] : k \in 1..n} : \A k \in 1..n : y[k] >= m
             fsr     == ymax - ymin
             devs    == {RAbs(RSub(Frac(y[k], 1), y_fit[k])) : k \in 1..n}
             max_dev == CHOOSE m \in devs : \A e \in devs : ~RLess(m, e)
         IN [none |-> FALSE, gain |-> fit.gain, offset |-> fit.offset,
             inl |-> inl, dnl |-> dnl, lsb_ideal |-> lsb,
             nonlinearity_pct |-> IF fsr > 0 THEN RMul(RDiv(max_dev, Frac(fsr, 1)), Frac(100, 1))
                                  ELSE Frac(0, 1),
             max_inl |-> EMaxAbs(inl), max_dnl |-> EMaxAbs(dnl)]

\* LinearityTestLogic.run_test lines 208-214 and LinearityWorker.run lines
\* 65-68: the analysis of what the loop collected, and what is saved and shown
run_test_metrics(input_vals, measured_vals) ==
    LET metrics == IF Len(input_vals) > 1
                   THEN calculate_linearity_metrics(input_vals, measured_vals)
                   ELSE None
    IN [metrics |-> metrics, report_saved |-> Len(input_vals) > 1,
        result_emitted |-> ~metrics.none, raised |-> FALSE]

\* DAC voltages of the configuration file are counted in tenths of a volt
\* ('-4.5' is -45), power voltages in hundredths of a volt (1.9 is 190).

\* variant of modify_dac_config whose channel window starts at DAC0
modify_dac_config_from_zero(rows, stage_index) ==
    [idx \in DOMAIN rows |->
        IF 0 <= idx /\ idx <= 7
        THEN [rows[idx] EXCEPT !.Voltage = IF idx <= stage_index THEN -45 ELSE -25]
        ELSE rows[idx]]

\* ConfigManager.modify_dac_config on a file with one row per channel DAC<idx>:
\* the rows written back
modify_dac_config(rows, stage_index) ==
    [idx \in DOMAIN rows |->
        IF 1 <= idx /\ idx <= 7
        THEN [rows[idx] EXCEPT !.Voltage = IF idx <= stage_index THEN -45 ELSE -25]
        ELSE rows[idx]]

\* variant of the power target with the stage counted from 0
target_v_from_zero(stage_index) == round_div((16 + 3 * (stage_index - 1)) * 100, 10)

\* ConfigManager.modify_power_config lines 71 and 76:
\* round(1.6 + (0.3 * stage_index), 2), in hundredths of a volt
target_v(stage_index) == round_div((16 + 3 * stage_index) * 100, 10)

\* ConfigManager.modify_power_config: the list written back
modify_power_config(data, stage_index) ==
    [k \in 1..Len(data) |->
        IF data[k].instrument = "DP1" /\ data[k].channel = 2
        THEN [data[k] EXCEPT !.voltage = target_v(stage_index)]
        ELSE data[k]]

---------------------------------------------------------------------------
(* Function-level specification: one call of a pure function of the program *)
(* on inputs drawn from bounded sets                                        *)

runvars == <<mode, instruments, cfg, latest, pwr_worker, lin_worker, queued, pc,
             current_stage, is_running, test_data, saved, finished_emitted,
             power_on_requests, power_off_requests, entered, scans_started,
             all_pass, error_log>>

\* inputs of the two power-limit checks: the limit records, one measured
\* current per record, the state of the handles the records name
LimitCalls ==
    UNION {[fn : {"limits"}, limits : {limits},
            meas : [1..Len(limits) -> Currents],
            insts : {f \in [Aliases -> InstStates] : f["DAC1"] = "connected"}]
           : limits \in LimitLists(MaxLimits)}

\* inputs of the stage verdict: what read_latest_stage_result returned, and
\* the ignore-failure policy
MetricsValues ==
    {NoMetrics, [truthy |-> TRUE, has_nl |-> FALSE, nl |-> 0]}
    \cup [truthy : {TRUE}, has_nl : {TRUE}, nl : 0..(NO_LINEARITY_LIMIT + MaxExcess)]

VerdictCalls == [fn : {"verdict"}, metrics : MetricsValues, ignore : BOOLEAN]

\* scans of up to MaxPointCount points: every (idx, total_steps) of the loop
MaxPointCount == 60

\* requested voltages range over -MaxQuarterVolts .. MaxQuarterVolts
MaxQuarterVolts == 100

\* a voltage written to a channel of configured range v_range, by the scan
\* (_set_source_value), by the configuration push (apply_dac_config) or by
\* the command generator of config_loader
DacCodeCalls ==
    [fn : {"dac_code"}, path : {"scan", "push", "loader"},
     v_range : DacRanges, voltage : (-MaxQuarterVolts)..MaxQuarterVolts]

\* series handed to the analyzer: up to MaxSeries points of the scan
\* start_v + k * step_v, each with a measured value
MaxSeries == 3
MaxMeasured == 2

AnalyzerCalls ==
    UNION {[fn : {"analyze"},
            x : {[k \in 1..n |-> start_v + (k - 1) * step_v]
                 : start_v \in -1..1, step_v \in -1..2},
            y : [1..n -> (-MaxMeasured)..MaxMeasured]]
           : n \in 0..MaxSeries}

\* the attachment to the power worker's finished_signal: by the sequencer or
\* the CP runner, in start() or in the retry _attach_power_on_signal(), with
\* window.pwr_worker set or not
AttachCalls ==
    [fn : {"attach"}, runner : {"sequencer", "cp"}, attempt : {"start", "retry"},
     has_worker : BOOLEAN]

\* a current asked of a registered supply outside simulation mode: the handle
\* is connected or not, the query raises or answers with a reading
MeasureCalls ==
    [fn : {"measure"}, connected : BOOLEAN, query_fails : BOOLEAN, reading : Currents]

\* items of Power_on_config.yaml, by what run_power_sequence meets in them: a
\* complete item of a connected supply, one without 'channel', one whose
\* voltage is not a number, one of an alias that is not registered, one whose
\* supply does not connect
MaxPowerOnItems == 2
PowerOnItems == {"ok", "missing_key", "non_numeric", "unknown_alias", "connect_fails"}

\* one run of a power worker: the configuration (<<>> is an empty or missing
\* file) and whether stop was requested before the first item
PowerWorkerCalls ==
    [fn : {"power_worker"}, configs : SeqsUpTo(PowerOnItems, MaxPowerOnItems),
     stop : BOOLEAN]

\* range(0, 32, 4)
GroupStarts == {0, 4, 8, 12, 16, 20, 24, 28}

\* the range command of one group: the ranges of its four channels, each one
\* of the chip's ranges or 1 V (4 quarter volts), which the chip does not have
GearCalls ==
    [fn : {"gear"}, i : GroupStarts, gears : [1..4 -> DacRanges \cup {4}]]

ScanParamCalls == [fn : {"scan_params"}, stage_index : Stages]

ProgressCalls ==
    UNION {[fn : {"progress"}, idx : 0..(total_steps - 1), total_steps : {total_steps}]
           : total_steps \in 1..MaxPointCount}

InitFn ==
    /\ mode = "fn"
    /\ instruments = [a \in Aliases |-> "absent"]
    /\ cfg = [dac_config |-> "empty", power_config |-> "valid", power_on_config |-> "empty"]
    /\ latest = NoFile
    /\ RunIdle
    /\ args \in LimitCalls \cup VerdictCalls \cup ProgressCalls \cup DacCodeCalls
               \cup ScanParamCalls \cup AnalyzerCalls \cup AttachCalls
               \cup MeasureCalls \cup GearCalls \cup PowerWorkerCalls
    /\ result = NoResult
    /\ recorder = NoRecorder
    /\ scan = NoScan
    /\ config_store = NoStore
    /\ registry = NoRegistry
    /\ threads = NoThreads

call_check_current_limits ==
    /\ args.fn = "limits" /\ result = NoResult
    /\ LET out == check_current_limits(args.limits, args.meas, args.insts) IN
       result' = [by |-> "check_current_limits", status |-> out.all_pass,
                  rows |-> out.rows, value |-> 0]
    /\ UNCHANGED <<runvars, args, recorder, scan, config_store, registry, threads>>

call_check_power_limits ==
    /\ args.fn = "limits" /\ result = NoResult
    /\ LET out == check_power_limits(args.limits, args.meas, args.insts) IN
       result' = [by |-> "check_power_limits", status |-> out.overall_status,
                  rows |-> out.rows, value |-> 0]
    /\ UNCHANGED <<runvars, args, recorder, scan, config_store, registry, threads>>

call_stage_result ==
    /\ args.fn = "verdict" /\ result = NoResult
    /\ result' = [by |-> "stage_result",
                  status |-> stage_result(args.metrics, args.ignore), rows |-> <<>>,
                  value |-> 0]
    /\ UNCHANGED <<runvars, args, recorder, scan, config_store, registry, threads>>

call_progress_value ==
    /\ args.fn = "progress" /\ result = NoResult
    /\ result' = [by |-> "progress_value", status |-> "int", rows |-> <<>>,
                  value |-> progress_value(args.idx, args.total_steps)]
    /\ UNCHANGED <<runvars, args, recorder, scan, config_store, registry, threads>>

call_dac_code ==
    /\ args.fn = "dac_code" /\ result = NoResult
    /\ result' = [by |-> "dac_code", status |-> "int", rows |-> <<>>,
                  value |-> IF args.path = "scan"
                            THEN set_source_value(args.v_range, args.voltage)
                            ELSE IF args.path = "push"
                            THEN apply_dac_config_code(args.v_range, args.voltage)
                            ELSE voltage_to_dac_code(args.voltage, args.v_range)]
    /\ UNCHANGED <<runvars, args, recorder, scan, config_store, registry, threads>>

\* run_stage lines 162-193: the parameters are calculated, written to the
\* window and the scan is started on them, clamped or not
call_calculate_scan_params ==
    /\ args.fn = "scan_params" /\ result = NoResult
    /\ LET params == calculate_scan_params(args.stage_index) IN
       result' = [by |-> "calculate_scan_params", status |-> "started",
                  rows |-> <<>>, value |-> 0,
                  params |-> params, fields |-> scan_fields(params)]
    /\ UNCHANGED <<runvars, args, recorder, scan, config_store, registry, threads>>

\* AutoTestSequencer.start lines 53-60 and _attach_power_on_signal lines
\* 73-78, CPTestRunner.start lines 52-56 and _attach_power_on_signal lines
\* 57-62: what the attempt leaves scheduled
attach_power_on_signal(runner, attempt, has_worker) ==
    IF has_worker THEN "connected"
    ELSE IF attempt = "start" THEN "attach_in_500_ms"
    ELSE IF runner = "sequencer" THEN "run_stage_in_5000_ms"
    ELSE "aborted"

call_attach_power_on_signal ==
    /\ args.fn = "attach" /\ result = NoResult
    /\ result' = [by |-> "attach_power_on_signal",
                  status |-> attach_power_on_signal(args.runner, args.attempt,
                                                    args.has_worker),
                  rows |-> <<>>, value |-> 0]
    /\ UNCHANGED <<runvars, args, recorder, scan, config_store, registry, threads>>

\* PowerSupply.measure_current (Multimeter.measure_voltage has the same
\* shape): one query; an exception is printed and 0.0 is returned, and 0.0 is
\* also what a handle that is not connected returns
measure_current(connected, query_fails, reading) ==
    IF connected /\ ~query_fails
    THEN [returned |-> "float", value |-> reading, queries |-> 1]
    ELSE [returned |-> "float", value |-> 0, queries |-> IF connected THEN 1 ELSE 0]

\* CPTestRunner.check_power_limits line 112 on one limit record of DP1: the
\* value measure_current returns is what the limits are applied to
call_measure_current ==
    /\ args.fn = "measure" /\ result = NoResult
    /\ LET m   == measure_current(args.connected, args.query_fails, args.reading)
           chk == check_power_limits(
                      <<[instrument |-> "DP1", channel_ok |-> TRUE,
                         min_current |-> LimitWindow.min_current,
                         max_current |-> LimitWindow.max_current]>>,
                      <<m.value>>, [a \in Aliases |-> "connected"])
       IN result' = [by |-> "measure_current", status |-> m.returned,
                     rows |-> IF m.returned = "float" THEN chk.rows ELSE <<>>,
                     value |-> m.value, queries |-> m.queries]
    /\ UNCHANGED <<runvars, args, recorder, scan, config_store, registry, threads>>

\* PowerTestLogic.run_power_sequence, by how it ends: "False" (no
\* configuration), "True", or the exception that leaves it.  The try around an
\* item's fields has "except KeyError" only: float() of a text that is not a
\* number raises ValueError past it.
RECURSIVE power_sequence_loop(_, _, _)
power_sequence_loop(configs, k, stop) ==
    IF k > Len(configs) \/ stop THEN "True"
    ELSE IF configs[k] = "non_numeric" THEN "ValueError"
    ELSE power_sequence_loop(configs, k + 1, stop)

run_power_sequence_ends(configs, stop) ==
    IF configs = <<>> THEN "False" ELSE power_sequence_loop(configs, 1, stop)

\* PowerWorker.run: the context, run_power_sequence, finished_signal.emit();
\* an exception of run_power_sequence leaves run before the emit
call_PowerWorker_run ==
    /\ args.fn = "power_worker" /\ result = NoResult
    /\ LET ends == run_power_sequence_ends(args.configs, args.stop) IN
       result' = [by |-> "PowerWorker_run", status |-> ends, rows |-> <<>>,
                  value |-> IF ends \in {"False", "True"} THEN 1 ELSE 0]
    /\ UNCHANGED <<runvars, args, recorder, scan, config_store, registry, threads>>

\* MainWindow.apply_dac_config lines 447-454: the range command of one group
call_calculate_gear_code ==
    /\ args.fn = "gear" /\ result = NoResult
    /\ result' = [by |-> "calculate_gear_code", status |-> "int", rows |-> <<>>,
                  value |-> calculate_gear_code(args.gears),
                  group |-> range_group(args.i)]
    /\ UNCHANGED <<runvars, args, recorder, scan, config_store, registry, threads>>

call_calculate_linearity_metrics ==
    /\ args.fn = "analyze" /\ result = NoResult
    /\ result' = [by |-> "calculate_linearity_metrics", status |-> "returned",
                  rows |-> <<>>, value |-> 0,
                  metrics |-> calculate_linearity_metrics(args.x, args.y)]
    /\ UNCHANGED <<runvars, args, recorder, scan, config_store, registry, threads>>

call_run_test_analysis ==
    /\ args.fn = "analyze" /\ result = NoResult
    /\ LET out == run_test_metrics(args.x, args.y) IN
       result' = [by |-> "run_test", status |-> "returned", rows |-> <<>>,
                  value |-> 0, metrics |-> out.metrics,
                  report_saved |-> out.report_saved,
                  result_emitted |-> out.result_emitted]
    /\ UNCHANGED <<runvars, args, recorder, scan, config_store, registry, threads>>

NextFn ==
    \/ call_check_current_limits
    \/ call_check_power_limits
    \/ call_stage_result
    \/ call_progress_value
    \/ call_dac_code
    \/ call_calculate_scan_params
    \/ call_calculate_linearity_metrics
    \/ call_run_test_analysis
    \/ call_attach_power_on_signal
    \/ call_measure_current
    \/ call_calculate_gear_code
    \/ call_PowerWorker_run

SpecFn == InitFn /\ [][NextFn]_vars

---------------------------------------------------------------------------
(* The result recorder (cp_test/data_manager.py) on one result file:        *)
(* DataManager objects are constructed and save_result is called on them    *)

\* DataManager objects constructed, save_result calls made, distinct records
MaxManagers == 3
MaxSaveCalls == 4
MaxRowIds == 2

\* the run, the window and the workers are not part of a component specification
Standalone(m) ==
    /\ mode = m
    /\ instruments = [a \in Aliases |-> "absent"]
    /\ cfg = [dac_config |-> "empty", power_config |-> "valid", power_on_config |-> "empty"]
    /\ latest = NoFile
    /\ RunIdle

HeaderLine == [kind |-> "header", data |-> [id |-> 0, extra |-> FALSE]]
RowLine(data) == [kind |-> "row", data |-> data]

\* the dicts handed to save_result: distinguishable records; extra says the
\* dict has a key that is not in fieldnames
SaveData == [id : 1..MaxRowIds, extra : BOOLEAN]

\* variant of _init_file that opens the file with 'w' whether it exists or not
init_file_always(file) == [exists |-> TRUE, lines |-> <<HeaderLine>>]

\* DataManager._init_file
init_file(file) ==
    IF ~file.exists THEN [exists |-> TRUE, lines |-> <<HeaderLine>>] ELSE file

\* DataManager.save_result: open(result_file, 'a') creates a missing file and
\* keeps an existing one; writerow raises ValueError before writing anything
\* when the dict has a key outside fieldnames
save_result(file, data) ==
    LET opened == IF file.exists THEN file ELSE [exists |-> TRUE, lines |-> <<>>] IN
    IF data.extra THEN [file |-> opened, raised |-> TRUE]
    ELSE [file |-> [opened EXCEPT !.lines = Append(@, RowLine(data))], raised |-> FALSE]

InitRecorder ==
    /\ Standalone("recorder")
    /\ args = NoCall
    /\ result = NoResult
    /\ recorder = NoRecorder
    /\ scan = NoScan
    /\ config_store = NoStore
    /\ registry = NoRegistry
    /\ threads = NoThreads

\* DataManager.__init__
DataManager_init ==
    /\ recorder.managers < MaxManagers
    /\ LET f == init_file([exists |-> recorder.exists, lines |-> recorder.lines]) IN
       recorder' = [recorder EXCEPT !.exists = f.exists, !.lines = f.lines,
                                    !.managers = @ + 1]
    /\ UNCHANGED <<runvars, args, result, scan, config_store, registry, threads>>

\* DataManager.save_result on an object constructed before
DataManager_save_result ==
    /\ recorder.managers > 0
    /\ recorder.calls < MaxSaveCalls
    /\ \E data \in SaveData :
         LET r == save_result([exists |-> recorder.exists, lines |-> recorder.lines], data) IN
         recorder' = [recorder EXCEPT
                         !.exists = r.file.exists, !.lines = r.file.lines,
                         !.calls = @ + 1,
                         !.accepted = IF r.raised THEN @ ELSE Append(@, data)]
    /\ UNCHANGED <<runvars, args, result, scan, config_store, registry, threads>>

NextRecorder ==
    \/ DataManager_init
    \/ DataManager_save_result

SpecRecorder == InitRecorder /\ [][NextRecorder]_vars

---------------------------------------------------------------------------
(* The scan loop (core/test_logic.py, LinearityTestLogic.run_test from the  *)
(* execution loop on): the worker thread runs the loop, the GUI thread may  *)
(* call LinearityWorker.stop at any time                                    *)

\* points of a scan; the meter readings are drawn from MeasVals
MaxPoints == 4
MeasVals == {0, 1}

\* start_v and step_v of a scan, in millivolts
StartVals == {-2, 0}
StepVals == {0, 1}

\* variant of the end of the loop that stops one step early
loop_exhausted_early(idx, total_steps) == idx + 1 >= total_steps

\* run_test line 189: "for idx, v in enumerate(steps)" has no element left
loop_exhausted(idx, total_steps) == idx >= total_steps

\* the scan at the top of the execution loop: points as given to run_test;
\* steps = start_v + np.arange(points) * step_v has total_steps elements
ScanStart(points, start_v, step_v) ==
    [state |-> "check", points |-> points, total_steps |-> points, idx |-> 0,
     start_v |-> start_v, step_v |-> step_v, events |-> <<>>,
     input_vals |-> <<>>, measured_vals |-> <<>>,
     should_stop |-> FALSE, stop_seen |-> FALSE, stop_called |-> FALSE,
     progress |-> <<>>, checks |-> 0, writes |-> 0, samples |-> 0,
     after_stop |-> 0, metrics |-> "unset"]

\* variant of the top of the loop that does not look at the stop flag
scan_next_ignoring_stop(sc) ==
    IF loop_exhausted(sc.idx, sc.total_steps) THEN [sc EXCEPT !.state = "analysis"]
    ELSE [sc EXCEPT !.state = "point", !.checks = @ + 1]

\* run_test lines 189-192: the next element of steps, then context.check_stop()
scan_next(sc) ==
    IF loop_exhausted(sc.idx, sc.total_steps) THEN [sc EXCEPT !.state = "analysis"]
    ELSE IF sc.should_stop
    THEN [sc EXCEPT !.state = "analysis", !.checks = @ + 1, !.stop_seen = TRUE]
    ELSE [sc EXCEPT !.state = "point", !.checks = @ + 1]

\* run_test line 179: steps[idx] of steps = start_v + np.arange(points) * step_v
step_value(sc, idx) == sc.start_v + idx * sc.step_v

\* variant of the loop body that samples the meter before writing the source
point_events_sample_first(sc) ==
    LET ev(e) == [e |-> e, k |-> sc.idx, v |-> step_value(sc, sc.idx)] IN
    <<ev("sample"), ev("write"), ev("settle"), ev("append"), ev("progress")>>

\* what the loop body does for point idx, in program order: lines 195, 197,
\* 200, 202-203 and 206
point_events(sc) ==
    LET ev(e) == [e |-> e, k |-> sc.idx, v |-> step_value(sc, sc.idx)] IN
    <<ev("write"), ev("settle"), ev("sample"), ev("append"), ev("progress")>>

\* run_test lines 194-206: write the source, settle, sample the meter, append
\* the pair, report progress
scan_point(sc, meas) ==
    [sc EXCEPT !.state = "check",
               !.writes = @ + 1,
               !.samples = @ + 1,
               !.events = @ \o point_events(sc),
               !.input_vals = Append(@, step_value(sc, sc.idx)),
               !.measured_vals = Append(@, meas),
               !.progress = Append(@, progress_value(sc.idx, sc.total_steps)),
               !.after_stop = IF sc.should_stop THEN @ + 1 ELSE @,
               !.idx = @ + 1]

\* run_test lines 208-214: metrics only for more than one point
scan_analysis(sc) ==
    [sc EXCEPT !.state = "returned",
               !.metrics = IF Len(sc.input_vals) > 1 THEN "computed" ELSE "none"]

\* TestContext.request_stop
request_stop(sc) == [sc EXCEPT !.should_stop = TRUE]

InitScan ==
    /\ Standalone("scan")
    /\ args = NoCall
    /\ result = NoResult
    /\ recorder = NoRecorder
    /\ scan \in {[ScanStart(points, start_v, step_v) EXCEPT !.state = "started"] :
                   points \in 0..MaxPoints, start_v \in StartVals, step_v \in StepVals}
    /\ config_store = NoStore
    /\ registry = NoRegistry
    /\ threads = NoThreads

\* LinearityWorker.run lines 48-51: the thread, started with context = None,
\* creates its TestContext (should_stop = False) and enters run_test
LinearityWorker_create_context ==
    /\ scan.state = "started"
    /\ scan' = [scan EXCEPT !.state = "check", !.should_stop = FALSE]
    /\ UNCHANGED <<runvars, args, result, recorder, config_store, registry, threads>>

run_test_next ==
    /\ scan.state = "check"
    /\ scan' = scan_next(scan)
    /\ UNCHANGED <<runvars, args, result, recorder, config_store, registry, threads>>

run_test_point ==
    /\ scan.state = "point"
    /\ \E meas \in MeasVals : scan' = scan_point(scan, meas)
    /\ UNCHANGED <<runvars, args, result, recorder, config_store, registry, threads>>

run_test_analysis ==
    /\ scan.state = "analysis"
    /\ scan' = scan_analysis(scan)
    /\ UNCHANGED <<runvars, args, result, recorder, config_store, registry, threads>>

\* LinearityWorker.stop, called from the GUI thread once the worker was
\* started: "if self.context: self.context.request_stop()"
LinearityWorker_stop ==
    /\ scan.state \in {"started", "check", "point", "analysis"}
    /\ ~scan.stop_called
    /\ scan' = IF scan.state = "started"
               THEN [scan EXCEPT !.stop_called = TRUE]
               ELSE [request_stop(scan) EXCEPT !.stop_called = TRUE]
    /\ UNCHANGED <<runvars, args, result, recorder, config_store, registry, threads>>

NextScan ==
    \/ LinearityWorker_create_context
    \/ run_test_next
    \/ run_test_point
    \/ run_test_analysis
    \/ LinearityWorker_stop

SpecScan == InitScan /\ [][NextScan]_vars

---------------------------------------------------------------------------
(* The stage configuration (automation/config_manager.py): the two files    *)
(* are rewritten for stages in any order, any number of times               *)

\* highest DAC channel with a row in DAC_Config.csv, items of
\* Power_Config.yaml, rewrites made
MaxChannel == 8
MaxPowerItems == 2
MaxConfigCalls == 3

\* a DAC_Config.csv with a row for every channel 0..MaxChannel: channels 1..7
\* at one voltage, the others at another
DacFiles ==
    {[idx \in 0..MaxChannel |->
         [Voltage |-> IF idx \in 1..7 THEN a ELSE b, Range |-> r]]
     : a \in {-45, -25, 10}, b \in {-45, 10}, r \in {10, 40}}

PowerItems ==
    [instrument : {"DP1", "DP2"}, channel : {1, 2}, voltage : {100}, current : {10}]

PowerFiles == SeqsUpTo(PowerItems, MaxPowerItems)

NoConfigCall == [op |-> "none", stage |-> 0]

InitConfig ==
    /\ Standalone("config")
    /\ args = NoCall
    /\ result = NoResult
    /\ recorder = NoRecorder
    /\ scan = NoScan
    /\ config_store \in [dac : DacFiles, power : PowerFiles, calls : {0},
                         last : {NoConfigCall}, prev : {NoConfigCall}]
    /\ registry = NoRegistry
    /\ threads = NoThreads

ConfigManager_modify_dac_config ==
    /\ config_store.calls < MaxConfigCalls
    /\ \E stage_index \in Stages :
         config_store' = [config_store EXCEPT
                             !.dac = modify_dac_config(@, stage_index),
                             !.calls = @ + 1,
                             !.prev = config_store.last,
                             !.last = [op |-> "dac", stage |-> stage_index]]
    /\ UNCHANGED <<runvars, args, result, recorder, scan, registry, threads>>

ConfigManager_modify_power_config ==
    /\ config_store.calls < MaxConfigCalls
    /\ \E stage_index \in Stages :
         config_store' = [config_store EXCEPT
                             !.power = modify_power_config(@, stage_index),
                             !.calls = @ + 1,
                             !.prev = config_store.last,
                             !.last = [op |-> "power", stage |-> stage_index]]
    /\ UNCHANGED <<runvars, args, result, recorder, scan, registry, threads>>

NextConfig ==
    \/ ConfigManager_modify_dac_config
    \/ ConfigManager_modify_power_config

SpecConfig == InitConfig /\ [][NextConfig]_vars

---------------------------------------------------------------------------
(* The registry (core/instruments.py InstrumentManager): aliases are        *)
(* registered, connected and removed in any order                           *)

\* handles the registry creates in one behaviour
MaxHandles == 5

InstTypes == {"DP", "DAC", "DM", "DG"}

\* instruments: the dict, alias -> handle (0: no such key); connected: the
\* handles whose connected flag is True, in the dict or not
\* InstrumentManager.register_instrument
register_instrument(reg, alias, inst_type) ==
    IF inst_type \notin InstTypes THEN reg
    ELSE [reg EXCEPT !.created = @ + 1, !.instruments[alias] = reg.created + 1]

\* InstrumentManager.remove_instrument
remove_instrument(reg, alias) ==
    LET inst == reg.instruments[alias] IN
    IF inst = 0 THEN reg
    ELSE [reg EXCEPT !.connected = @ \ {inst}, !.instruments[alias] = 0]

\* MainWindow.__init__ without a visa.yaml: the demo handles (DG1 is left out,
\* no sequence uses it)
InitRegistry ==
    /\ Standalone("registry")
    /\ args = NoCall
    /\ result = NoResult
    /\ recorder = NoRecorder
    /\ scan = NoScan
    /\ config_store = NoStore
    /\ threads = NoThreads
    /\ registry = [instruments |-> [a \in Aliases |->
                                       IF a = "DP1" THEN 1 ELSE IF a = "DAC1" THEN 2 ELSE 3],
                   connected |-> {}, created |-> 3]

InstrumentManager_register_instrument ==
    /\ registry.created < MaxHandles
    /\ \E alias \in Aliases, inst_type \in InstTypes \cup {"other"} :
         registry' = register_instrument(registry, alias, inst_type)
    /\ UNCHANGED <<runvars, args, result, recorder, scan, config_store, threads>>

InstrumentManager_remove_instrument ==
    /\ \E alias \in Aliases : registry' = remove_instrument(registry, alias)
    /\ UNCHANGED <<runvars, args, result, recorder, scan, config_store, threads>>

\* handle.connect() of a registered handle, succeeding
Instrument_connect ==
    /\ \E alias \in Aliases :
         /\ registry.instruments[alias] # 0
         /\ registry' = [registry EXCEPT !.connected = @ \cup {registry.instruments[alias]}]
    /\ UNCHANGED <<runvars, args, result, recorder, scan, config_store, threads>>

NextRegistry ==
    \/ InstrumentManager_register_instrument
    \/ InstrumentManager_remove_instrument
    \/ Instrument_connect

SpecRegistry == InitRegistry /\ [][NextRegistry]_vars

---------------------------------------------------------------------------
(* Threads (gui/workers.py, cp_test/gui.py): site runs one after another,   *)
(* each worker a thread of its own that sends its commands one at a time    *)

\* site runs started and worker threads created in one behaviour
MaxSiteRuns == 2
MaxWorkers == 5
\* commands a worker sends before its sequence is over
MaxCommands == 2

\* the aliases a worker sends commands to: run_power_sequence drives the
\* supply, run_test the source and the meter
WorkerAliases(kind) == IF kind = "SCAN" THEN {"DAC1", "DM1"} ELSE {"DP1"}

\* QThread.start() of a new worker: MainWindow.start_power_on,
\* start_power_off, start_linearity_test.  Nothing waits for, or stops, the
\* workers that are still running.
spawn(th, kind) ==
    [th EXCEPT !.workers = Append(@, [kind |-> kind, state |-> "running", alias |-> "none", sent |-> 0])]

\* commands being executed on an alias: by workers and by the control flow
in_flight(th, alias) ==
    Cardinality({w \in DOMAIN th.workers :
                    th.workers[w].state = "busy" /\ th.workers[w].alias = alias})
    + (IF th.control = alias THEN 1 ELSE 0)

\* the newest worker of a kind has emitted finished_signal
newest_finished(th, kind) ==
    \E w \in DOMAIN th.workers :
        /\ th.workers[w].kind = kind /\ th.workers[w].state = "finished"
        /\ \A v \in DOMAIN th.workers : v > w => th.workers[v].kind # kind

InitThreads ==
    /\ Standalone("threads")
    /\ args = NoCall
    /\ result = NoResult
    /\ recorder = NoRecorder
    /\ scan = NoScan
    /\ config_store = NoStore
    /\ registry = NoRegistry
    /\ threads = [phase |-> "idle", runs |-> 0, workers |-> <<>>, control |-> "none"]

\* CPTestWidget.start_test -> CPTestRunner.start -> window.start_power_on():
\* the Start button is enabled whenever no run is under way
CPTestWidget_start_test ==
    /\ threads.phase = "idle" /\ threads.runs < MaxSiteRuns
    /\ Len(threads.workers) < MaxWorkers
    /\ threads' = [spawn(threads, "ON") EXCEPT !.phase = "wait_on", !.runs = @ + 1]
    /\ UNCHANGED <<runvars, args, result, recorder, scan, config_store, registry>>

\* a worker thread enters a command of its sequence (set_channel, output_on,
\* measure_current, output_off, set_output, measure_voltage)
Worker_begin_command ==
    /\ \E w \in DOMAIN threads.workers :
         /\ threads.workers[w].state = "running"
         /\ threads.workers[w].sent < MaxCommands
         /\ \E alias \in WorkerAliases(threads.workers[w].kind) :
              threads' = [threads EXCEPT !.workers[w].state = "busy",
                                         !.workers[w].alias = alias]
    /\ UNCHANGED <<runvars, args, result, recorder, scan, config_store, registry>>

Worker_end_command ==
    /\ \E w \in DOMAIN threads.workers :
         /\ threads.workers[w].state = "busy"
         /\ threads' = [threads EXCEPT !.workers[w].state = "running",
                                       !.workers[w].alias = "none",
                                       !.workers[w].sent = @ + 1]
    /\ UNCHANGED <<runvars, args, result, recorder, scan, config_store, registry>>

\* PowerWorker.run / LinearityWorker.run: the sequence is over,
\* finished_signal is emitted
Worker_finish ==
    /\ \E w \in DOMAIN threads.workers :
         /\ threads.workers[w].state = "running"
         /\ threads' = [threads EXCEPT !.workers[w].state = "finished"]
    /\ UNCHANGED <<runvars, args, result, recorder, scan, config_store, registry>>

\* CPTestRunner.on_power_on_finished and on_stage_finished with a stage to go:
\* run_stage is entered; its apply_power_config sends set_channel on the
\* control flow
CPTestRunner_run_stage ==
    /\ \/ threads.phase = "wait_on" /\ newest_finished(threads, "ON")
       \/ threads.phase = "scan" /\ newest_finished(threads, "SCAN")
    /\ Len(threads.workers) < MaxWorkers - 1
    /\ threads' = [threads EXCEPT !.phase = "stage", !.control = "DP1"]
    /\ UNCHANGED <<runvars, args, result, recorder, scan, config_store, registry>>

\* run_stage after apply_power_config: window.start_linearity_test()
CPTestRunner_start_scan ==
    /\ threads.phase = "stage"
    /\ threads' = [spawn(threads, "SCAN") EXCEPT !.phase = "scan", !.control = "none"]
    /\ UNCHANGED <<runvars, args, result, recorder, scan, config_store, registry>>

\* on_stage_finished at the last stage or at a failed first stage ->
\* finish_test: start_power_off(), finished is emitted and on_test_finished
\* enables the Start button
CPTestRunner_finish_test ==
    /\ threads.phase = "scan" /\ newest_finished(threads, "SCAN")
    /\ threads' = [spawn(threads, "OFF") EXCEPT !.phase = "idle"]
    /\ UNCHANGED <<runvars, args, result, recorder, scan, config_store, registry>>

NextThreads ==
    \/ CPTestWidget_start_test
    \/ Worker_begin_command
    \/ Worker_end_command
    \/ Worker_finish
    \/ CPTestRunner_run_stage
    \/ CPTestRunner_start_scan
    \/ CPTestRunner_finish_test

SpecThreads == InitThreads /\ [][NextThreads]_vars

---------------------------------------------------------------------------
(* Properties of the run (specification Spec)                               *)

PassVerdicts == {"PASS", "PASS (Ignored)"}

\* the run is over: finished, aborted, or ended by an exception that left
\* the handler
RunEnded == pc \in {"done", "aborted", "crashed"}

AllStagesPass(td) == \A i \in Stages : td.Result[i] \in PassVerdicts

PowerCheckFailed(td) == td.Power_Check_Result \in {"FAIL", "FAIL (Ignored)"}

\* C1: in both runners the power-off sequence is started exactly once before
\* the run ends, on every path: never twice, and a run that has ended
\* (completed, aborted, or stopped by an error in run_stage) has started it once.
C1_PowerOffExactlyOnce ==
    /\ power_off_requests <= 1
    /\ RunEnded => power_off_requests = 1

\* C2: in a per-site run, once stage 1 has verdict FAIL the record has
\* Final_Result FAIL and Fail_Reason Stage1_Fail, run_stage has been entered for
\* stage 1 only and is not scheduled again, no scan of a later stage exists,
\* and every saved row carries that verdict.
C2_Stage1FailStopsSite ==
    (mode = "cp" /\ test_data.Result[1] = "FAIL") =>
        /\ test_data.Final_Result = "FAIL"
        /\ test_data.Fail_Reason = "Stage1_Fail"
        /\ entered = {1}
        /\ scans_started = {1}
        /\ current_stage = 1
        /\ "run_stage" \notin queued
        /\ \A i \in 2..max_stages : test_data.Result[i] = "UNSET"
        /\ \A k \in 1..Len(saved) :
               /\ saved[k].Final_Result = "FAIL"
               /\ saved[k].Fail_Reason = "Stage1_Fail"

\* a site whose first stage failed, saved and finished
C2_Witness ==
    /\ mode = "cp" /\ test_data.Result[1] = "FAIL"
    /\ pc = "done" /\ Len(saved) = 1 /\ power_off_requests = 1

\* C3: the Final_Result of the record handed to save_result is PASS exactly
\* when all seven stages are PASS or PASS (Ignored), FAIL when the power check
\* failed or stage 1 failed, PARTIAL when power check and stage 1 passed but a
\* stage 2..7 is FAIL, and never PENDING.
C3_FinalVerdict ==
    (mode = "cp" /\ pc \in {"done", "crashed"}) =>
        /\ test_data.Final_Result # "PENDING"
        /\ (test_data.Final_Result = "PASS") <=> AllStagesPass(test_data)
        /\ (PowerCheckFailed(test_data) \/ test_data.Result[1] = "FAIL")
               => test_data.Final_Result = "FAIL"
        /\ ( /\ ~PowerCheckFailed(test_data)
             /\ test_data.Result[1] \in PassVerdicts
             /\ \E i \in 2..max_stages : test_data.Result[i] = "FAIL" )
               => test_data.Final_Result = "PARTIAL"

\* C4: in a per-site run, whenever the power-limit check came out FAIL no
\* scan of any stage is started and the record is FAIL with reason Power_Limit.
C4_AbortOnPowerFail ==
    (mode = "cp" /\ PowerCheckFailed(test_data)) =>
        /\ scans_started = {}
        /\ test_data.Final_Result = "FAIL"
        /\ test_data.Fail_Reason = "Power_Limit"

C7_FailFast ==
    (\E a \in required : instruments[a] \in {"absent", "unreachable"}) =>
        scans_started = {}

\* C9: a FAIL recorded for stage i of a per-site run, i > 1, leaves the run
\* going: for i < 7 run_stage is scheduled for stage i+1 with no power-off, for
\* i = 7 power-off is started; the 7-stage run goes from every finished stage
\* to the next one (power-off after stage 7) whatever the stage produced.
C9_FailedStageContinues ==
    [][ /\ \A i \in 2..max_stages :
             ( /\ mode = "cp"
               /\ test_data.Result[i] = "UNSET"
               /\ test_data'.Result[i] = "FAIL" )
             => IF i < max_stages
                THEN /\ current_stage' = i + 1
                     /\ "run_stage" \in queued'
                     /\ is_running'
                     /\ power_off_requests' = power_off_requests
                ELSE power_off_requests' = power_off_requests + 1
        /\ ( /\ mode = "auto"
             /\ "on_stage_finished" \in queued
             /\ "on_stage_finished" \notin queued' )
             => /\ current_stage' = current_stage + 1
                /\ IF current_stage < max_stages
                   THEN "run_stage" \in queued'
                        /\ power_off_requests' = power_off_requests
                   ELSE power_off_requests' = power_off_requests + 1 ]_vars

\* a per-site run with a failed stage after the first whose next stage was entered
C9_Witness ==
    /\ mode = "cp"
    /\ \E i \in 2..(max_stages - 1) : test_data.Result[i] = "FAIL" /\ (i + 1) \in entered

Aborted == mode = "cp" /\ test_data.Fail_Reason = "Config Error"

\* C11: once abort_test has run in a per-site run, in every later state the
\* record is FAIL with a non-empty reason, power-off has been requested once,
\* the runner is not running and no stage is scheduled; and no later step
\* changes the record, enters run_stage, starts a scan, moves current_stage,
\* saves a row or requests power-off again.
C11_AbortIsTerminal ==
    [][ /\ Aborted' =>
             /\ test_data'.Final_Result = "FAIL"
             /\ test_data'.Fail_Reason # ""
             /\ power_off_requests' = 1
             /\ ~is_running'
             /\ "run_stage" \notin queued'
        /\ Aborted =>
             /\ test_data' = test_data
             /\ entered' = entered
             /\ scans_started' = scans_started
             /\ current_stage' = current_stage
             /\ saved' = saved
             /\ lin_worker' = lin_worker
             /\ power_off_requests' = power_off_requests ]_vars

\* an aborted per-site run after a later event, the end of the power-off worker
C11_Witness ==
    /\ Aborted /\ 2 \in error_log
    /\ pwr_worker.mode = "OFF" /\ pwr_worker.state = "finished"

\* C12: every per-site run saves its record exactly once: never twice, and a
\* run that has ended has saved one row, after power-off was requested, equal
\* to the record as it is at the end.
C12_PersistedExactlyOnce ==
    mode = "cp" =>
        /\ Len(saved) <= 1
        /\ RunEnded => ( /\ Len(saved) = 1
                         /\ power_off_requests = 1
                         /\ saved[1] = test_data )

\* C32: the metrics recorded for a stage, and the file tagged with a stage,
\* come from that stage's own scan in this run.
C32_StageMetricsAreOwn ==
    [][/\ \A i \in test_data'.metric_stages \ test_data.metric_stages :
              latest.exists /\ latest.written_by = i
       /\ latest'.tag # latest.tag => latest.written_by = latest'.tag]_vars

\* C33: the stages are entered in the order 1, 2, ..., 7, each once; the stage
\* index moves only by one, and only when the scan-finished notification of
\* the current stage is handled; handling it leaves the stage (so it is handled
\* once per stage); and power-off of a run that is not aborted is requested by
\* the handling of stage 7's notification, after all seven stages were entered.
C33_StagesInOrder ==
    [][ LET handling == /\ "on_stage_finished" \in queued
                        /\ "on_stage_finished" \notin queued'
                        /\ mode = "cp" => is_running
        IN
        /\ current_stage' \in {current_stage, current_stage + 1}
        /\ current_stage' # current_stage =>
               handling /\ current_stage \in scans_started
        /\ handling =>
               /\ current_stage' = current_stage + 1 \/ RunEnded'
               /\ ~lin_worker'.hooked
        /\ entered' # entered =>
               /\ entered = 1..(current_stage - 1)
               /\ entered' = 1..current_stage
        /\ ("run_stage" \in queued /\ "run_stage" \notin queued'
               /\ (mode = "cp" => is_running)) =>
               current_stage \notin entered /\ current_stage \in entered'
        /\ scans_started' # scans_started =>
               /\ current_stage \notin scans_started
               /\ scans_started' = scans_started \cup {current_stage}
        /\ (power_off_requests' > power_off_requests /\ pc' # "aborted"
               /\ test_data'.Fail_Reason = "") =>
               /\ handling /\ current_stage = max_stages
               /\ entered = Stages /\ scans_started = Stages ]_vars

\* an automatic run that went through the seven stages and requested power-off
C33_Witness ==
    /\ mode = "auto" /\ pc = "done"
    /\ entered = Stages /\ scans_started = Stages
    /\ current_stage = max_stages + 1
    /\ power_off_requests = 1

\* C35: in the automatic run the push of a stage's DAC configuration to the
\* DAC handle does not raise out of run_stage: no run_stage of a run whose
\* configuration files can be rewritten ends in an error, and the run is never
\* left stopped by an exception with no power-off requested.
C35_DacPushDoesNotRaise ==
    mode = "auto" =>
        /\ pc # "crashed"
        /\ (cfg.dac_config = "valid" /\ cfg.power_config = "valid"
               /\ instruments["DAC1"] = "connected" /\ pc # "aborted")
               => error_log = {}

\* C37: a worker's completion notification is never lost: whenever the run
\* waits with its handler attached to a worker that has finished, the handler
\* is queued to run.
C37_NotificationNotLost ==
    pc = "wait" =>
        /\ (lin_worker.state = "finished" /\ lin_worker.hooked)
               => "on_stage_finished" \in queued
        /\ (pwr_worker.mode = "ON" /\ pwr_worker.state = "finished"
               /\ pwr_worker.hooked) => "on_power_on_finished" \in queued

\* C39: the record a per-site run hands to the recorder has only keys of the
\* recorder's schema, so that save_result accepts it, and the run that got as
\* far as finish_test has emitted finished and cleared its running flag.
C39_RecordAccepted ==
    (mode = "cp" /\ power_off_requests > 0) =>
        /\ keys_of(test_data) \subseteq fieldnames
        /\ finished_emitted
        /\ ~is_running

\* C30: the stage index is within 1..7 in every state of a run, also after
\* stage 7 has finished and while power-off runs, and run_stage (which calls
\* modify_dac_config, modify_power_config and calculate_scan_params with it)
\* is only entered with an index in 1..7.
C30_StageIndexInRange ==
    /\ current_stage \in Stages
    /\ entered \subseteq Stages

---------------------------------------------------------------------------
(* Properties of the result recorder (specification SpecRecorder)           *)

\* C13: after every construction and every save_result call the file is one
\* header line followed by the records saved so far, in call order; every
\* step keeps the lines already in the file as they are, in place.
C13_AppendOnly ==
    [][ /\ recorder'.lines =
              <<HeaderLine>> \o [k \in 1..Len(recorder'.accepted) |->
                                    RowLine(recorder'.accepted[k])]
        /\ Len(recorder'.lines) >= Len(recorder.lines)
        /\ SubSeq(recorder'.lines, 1, Len(recorder.lines)) = recorder.lines ]_vars

\* two different records saved around a second construction, and a rejected call
C13_Witness ==
    /\ recorder.managers >= 2
    /\ Len(recorder.accepted) = 2 /\ recorder.accepted[1] # recorder.accepted[2]
    /\ recorder.calls > Len(recorder.accepted)
    /\ Len(recorder.lines) = 3

---------------------------------------------------------------------------
(* Properties of the scan loop (specification SpecScan)                     *)

IsPrefix(a, b) == Len(a) <= Len(b) /\ SubSeq(b, 1, Len(a)) = a

\* C14: after every step of a scan the commanded and the measured series
\* have the same length, at most pointCount; a step only appends to them;
\* and a scan that returns without a stop request returns pointCount points.
C14_SeriesInStep ==
    [][ /\ Len(scan'.input_vals) = Len(scan'.measured_vals)
        /\ Len(scan'.input_vals) <= scan'.points
        /\ IsPrefix(scan.input_vals, scan'.input_vals)
        /\ IsPrefix(scan.measured_vals, scan'.measured_vals)
        /\ (scan'.state = "returned" /\ ~scan'.should_stop)
               => Len(scan'.input_vals) = scan'.points ]_vars

\* a full scan of MaxPoints points that was never stopped
C14_Witness ==
    /\ scan.state = "returned" /\ ~scan.should_stop
    /\ scan.points = MaxPoints /\ Len(scan.measured_vals) = MaxPoints

\* C15: the stop flag is read once per point, before the point's source
\* write; once it was seen set there is no further write, sample or append; at
\* most one point is appended after a stop request; and the returned series,
\* partial or full, gets metrics exactly when it has at least 2 points.
C15_StopOncePerPoint ==
    [][ /\ scan'.writes = Len(scan'.input_vals)
        /\ scan'.samples = Len(scan'.input_vals)
        /\ scan'.checks = Len(scan'.input_vals)
                            + (IF scan'.state = "point" \/ scan'.stop_seen THEN 1 ELSE 0)
        /\ scan.stop_seen =>
               /\ scan'.writes = scan.writes
               /\ scan'.samples = scan.samples
               /\ scan'.input_vals = scan.input_vals
               /\ scan'.measured_vals = scan.measured_vals
        /\ scan'.after_stop <= 1
        /\ scan'.state = "returned" =>
               ((scan'.metrics = "computed") <=> (Len(scan'.input_vals) >= 2)) ]_vars

\* a scan stopped while a point was being taken: that point was appended, the
\* next look at the flag ended the loop, and the partial series was analysed
C15_Witness ==
    /\ scan.state = "returned" /\ scan.stop_seen /\ scan.after_stop = 1
    /\ Len(scan.input_vals) = 2 /\ scan.points = MaxPoints
    /\ scan.metrics = "computed"

\* C16: every progress value reported in a scan is an integer in 0..100,
\* the reported values never decrease, and a scan that took all its points
\* (at least one) reported 100 last.
C16_ProgressMonotone ==
    [][ /\ \A j \in 1..Len(scan'.progress) : scan'.progress[j] \in 0..100
        /\ \A j \in 1..(Len(scan'.progress) - 1) :
               scan'.progress[j] <= scan'.progress[j + 1]
        /\ IsPrefix(scan.progress, scan'.progress)
        /\ Len(scan'.progress) = Len(scan'.input_vals)
        /\ (scan'.points >= 1 /\ Len(scan'.input_vals) = scan'.points)
               => scan'.progress[Len(scan'.progress)] = 100 ]_vars

\* a completed scan of 3 points, whose reports were 33, 66, 100
C16_Witness ==
    /\ scan.state = "returned" /\ scan.points = 3
    /\ scan.progress = <<33, 66, 100>>

\* C34: point k of a scan is commanded at start + k*step, and what the scan
\* did is, point after point from k = 0, the write of the source, the settle
\* delay, the sample of the meter, the append of the pair and the progress
\* report, so that no point is written before the point before it was appended.
C34_PointEventsInOrder ==
    scan.state # "none" =>
        /\ Len(scan.events) = 5 * Len(scan.input_vals)
        /\ \A j \in 1..Len(scan.events) :
               LET k == (j - 1) \div 5 IN
               /\ scan.events[j].k = k
               /\ scan.events[j].e =
                      <<"write", "settle", "sample", "append", "progress">>[((j - 1) % 5) + 1]
               /\ scan.events[j].v = scan.start_v + k * scan.step_v
        /\ \A k \in 1..Len(scan.input_vals) :
               scan.input_vals[k] = scan.start_v + (k - 1) * scan.step_v

\* a scan of MaxPoints points from a negative start with a non-zero step
C34_Witness ==
    /\ scan.state = "returned" /\ scan.points = MaxPoints
    /\ scan.start_v < 0 /\ scan.step_v > 0
    /\ Len(scan.events) = 5 * MaxPoints
    /\ scan.input_vals[MaxPoints] = scan.start_v + (MaxPoints - 1) * scan.step_v

\* C38: a stop requested at any time after the worker was started is not
\* dropped: once the worker has its context, the stop flag is set if stop()
\* was called, and the loop then ends at its next look at the flag.
C38_StopNotDropped ==
    (scan.state \notin {"none", "started"} /\ scan.stop_called) =>
        /\ scan.should_stop
        /\ scan.state = "returned" => (scan.stop_seen \/ scan.idx = scan.total_steps)

---------------------------------------------------------------------------
(* Properties of the stage configuration (specification SpecConfig)         *)

\* C19: every rewrite of the DAC file for a stage i, on whatever earlier
\* rewrites left, leaves channels 1..i at -4.5 V and channels i+1..7 at
\* -2.5 V, and every other channel with the voltage and range it had.
C19_DacStageConfig ==
    [][ ( /\ config_store'.calls = config_store.calls + 1
          /\ config_store'.last.op = "dac" )
        => LET i == config_store'.last.stage IN
           /\ \A ch \in 1..i : config_store'.dac[ch].Voltage = -45
           /\ \A ch \in (i + 1)..7 : config_store'.dac[ch].Voltage = -25
           /\ \A ch \in (0..MaxChannel) \ (1..7) :
                  config_store'.dac[ch] = config_store.dac[ch]
           /\ DOMAIN config_store'.dac = DOMAIN config_store.dac ]_vars

\* stage 2 written over what stage 5 left: channels 3..5 are back at -2.5 V,
\* channel 0 and channel 8 still hold their own voltage
C19_Witness ==
    /\ config_store.prev = [op |-> "dac", stage |-> 5]
    /\ config_store.last = [op |-> "dac", stage |-> 2]
    /\ config_store.dac[2].Voltage = -45 /\ config_store.dac[3].Voltage = -25
    /\ config_store.dac[5].Voltage = -25
    /\ config_store.dac[0].Voltage = 10 /\ config_store.dac[MaxChannel].Voltage = 10

\* C20: every rewrite of the power file for a stage i sets the voltage of
\* each DP1 channel-2 record to 1.6 + 0.3 i volts (1.90 .. 3.70) and leaves
\* every other record, and every current, as it was.
C20_PowerStageConfig ==
    [][ ( /\ config_store'.calls = config_store.calls + 1
          /\ config_store'.last.op = "power" )
        => LET i    == config_store'.last.stage
               old  == config_store.power
               new  == config_store'.power
           IN /\ Len(new) = Len(old)
              /\ \A k \in 1..Len(old) :
                    IF old[k].instrument = "DP1" /\ old[k].channel = 2
                    THEN /\ new[k].voltage = 160 + 30 * i
                         /\ new[k].voltage \in {190, 220, 250, 280, 310, 340, 370}
                         /\ [new[k] EXCEPT !.voltage = 0] = [old[k] EXCEPT !.voltage = 0]
                    ELSE new[k] = old[k] ]_vars

\* stage 7 written into a file with a DP1 channel-2 record and another record
C20_Witness ==
    /\ config_store.last = [op |-> "power", stage |-> 7]
    /\ Len(config_store.power) = 2
    /\ config_store.power[1] = [instrument |-> "DP1", channel |-> 2, voltage |-> 370, current |-> 10]
    /\ config_store.power[2] = [instrument |-> "DP1", channel |-> 1, voltage |-> 100, current |-> 10]

---------------------------------------------------------------------------
(* Properties of the registry (specification SpecRegistry)                  *)

\* C27: registering never replaces the handle of an alias that has one, so
\* every handle that is connected is still held by the registry.
C27_RegisteredHandleKept ==
    [][ /\ \A a \in Aliases :
             (registry.instruments[a] # 0 /\ registry'.created = registry.created + 1)
             => registry'.instruments[a] = registry.instruments[a]
        /\ \A h \in registry'.connected :
             \E a \in Aliases : registry'.instruments[a] = h ]_vars

---------------------------------------------------------------------------
(* Properties of the threads (specification SpecThreads)                    *)

\* C28: at any time at most one command is being executed per alias, by the
\* control flow and all worker threads together.
C28_OneCommandPerAlias ==
    threads.phase # "none" => \A alias \in Aliases : in_flight(threads, alias) <= 1

---------------------------------------------------------------------------
(* Properties of single calls (specification SpecFn)                        *)

RowsWith(rows, st) == {rows[j].k : j \in {n \in 1..Len(rows) : rows[n].status \in st}}

\* the records whose current the check asks for and obtains
Measured(limits, insts) ==
    {k \in 1..Len(limits) :
        /\ limits[k].channel_ok
        /\ insts[limits[k].instrument] = "connected"
        /\ InstType(limits[k].instrument) = "DP"}

InWindow(limit, m) == ~(m < limit.min_current) /\ ~(m > limit.max_current)

C8_VerdictByLimit ==
    (result.by = "stage_result") =>
        LET exceeded == args.metrics.nl > NO_LINEARITY_LIMIT IN
        /\ (result.status = "FAIL") <=> (exceeded /\ ~args.ignore)
        /\ (result.status = "PASS (Ignored)") <=> (exceeded /\ args.ignore)
        /\ ~exceeded => result.status = "PASS"

\* C8 amended: a stage with no metrics is FAIL whatever the policy; a stage
\* with metrics (a missing nonlinearity counts as 0) is FAIL exactly when the
\* nonlinearity exceeds the limit and ignore is off, PASS (Ignored) exactly
\* when it exceeds the limit and ignore is on, PASS otherwise, the limit
\* itself included.
C8_VerdictOfMeasuredStage ==
    (result.by = "stage_result") =>
        IF ~args.metrics.truthy THEN result.status = "FAIL"
        ELSE LET exceeded == args.metrics.has_nl /\ args.metrics.nl > NO_LINEARITY_LIMIT IN
             /\ (result.status = "FAIL") <=> (exceeded /\ ~args.ignore)
             /\ (result.status = "PASS (Ignored)") <=> (exceeded /\ args.ignore)
             /\ (result.status = "PASS") <=> ~exceeded

\* a nonlinearity equal to the limit, ignore off, judged PASS
C8_Witness ==
    /\ result.by = "stage_result" /\ args.metrics.has_nl
    /\ args.metrics.nl = NO_LINEARITY_LIMIT /\ ~args.ignore
    /\ result.status = "PASS"

\* C17 as stated: the value reported after point idx of total_steps points is
\* 100 * (idx + 1) / total_steps rounded to a nearest integer.
C17_ProgressIsRounded ==
    (result.by = "progress_value") =>
        LET d == 100 * (args.idx + 1) - result.value * args.total_steps IN
        2 * d <= args.total_steps /\ 2 * d >= -args.total_steps

\* C17 amended: the value reported is the integer part of
\* 100 * (idx + 1) / total_steps (rounded down, never up), except where the
\* double-precision product falls just below an integer quotient and the
\* value is one less (idx = 28, total_steps = 50 gives 57).
C17_ProgressIsTruncated ==
    (result.by = "progress_value") =>
        LET v == result.value
            n == args.total_steps
            x == 100 * (args.idx + 1)
        IN IF args.idx = 28 /\ n = 50 THEN v = 57
           ELSE v * n <= x /\ x < (v + 1) * n

\* point 2 of 3: 66, where rounding would give 67
C17_Witness ==
    /\ result.by = "progress_value" /\ args.idx = 1 /\ args.total_steps = 3
    /\ result.value = 66

\* C18: for a channel of configured range R and a requested voltage v, the
\* code written by the scan and by the configuration push is
\* (R + clamp(v, -R, R)) * 65535 / (2R) rounded to a nearest integer, and lies
\* in 0..65535.
C18_DacCodeIsRounded ==
    (result.by = "dac_code" /\ args.path \in {"scan", "push"}) =>
        LET R   == args.v_range
            num == (R + Max(-R, Min(R, args.voltage))) * 65535
            d   == num - result.value * (2 * R)
        IN /\ result.value \in 0..65535
           /\ d <= R /\ d >= -R

Analyzed == result.by = "calculate_linearity_metrics"

EZero == [fin |-> Frac(0, 1), big |-> Frac(0, 1)]

\* the series is measured = g * commanded + c for integers g # 0 and c
ExactlyLinear(x, y, g, c) == g # 0 /\ \A k \in 1..Len(x) : y[k] = g * x[k] + c

Slopes == (-2 * MaxMeasured)..(2 * MaxMeasured)
Intercepts == (-3 * MaxMeasured)..(3 * MaxMeasured)

\* C22: the analyzer on fewer than 2 points returns None and raises nothing,
\* and run_test on such a series has no metrics, saves no report and shows
\* no result.
C22_ShortSeriesNoResult ==
    (result.by \in {"calculate_linearity_metrics", "run_test"} /\ Len(args.x) < 2) =>
        /\ result.metrics = None
        /\ result.status = "returned"
        /\ result.by = "run_test" => ~result.report_saved /\ ~result.result_emitted

C22_Witness ==
    /\ Analyzed /\ Len(args.x) = 1 /\ result.metrics = None

\* C23: on a series of 2 points or more dnl[0] is 0 and every later dnl[i]
\* is (measured[i] - measured[i-1]) / lsbIdeal - 1.
C23_DnlDefinition ==
    (Analyzed /\ Len(args.x) >= 2) =>
        LET m == result.metrics IN
        /\ m.dnl[1] = EZero
        /\ \A i \in 2..Len(args.y) :
              LET step == Frac(args.y[i] - args.y[i - 1], 1) IN
              IF m.lsb_ideal.eps
              THEN m.dnl[i] = [fin |-> Frac(-1, 1), big |-> step]
              ELSE /\ m.dnl[i].big = Frac(0, 1)
                   /\ RMul(RAdd(m.dnl[i].fin, Frac(1, 1)), m.lsb_ideal.val) = step

C23_Witness ==
    /\ Analyzed /\ args.x = <<0, 1, 2>> /\ args.y = <<0, 2, 2>>
    /\ ~result.metrics.lsb_ideal.eps
    /\ result.metrics.dnl[1] = EZero
    /\ result.metrics.dnl[2].fin = Frac(1, 1)
    /\ result.metrics.dnl[3].fin = Frac(-1, 1)

\* C24: the lsb_ideal the analyzer divides by is never zero (1e-9 stands in
\* for a zero product), and no INL or DNL value is the outcome of a division
\* by zero.
C24_LsbNeverZero ==
    (Analyzed /\ Len(args.x) >= 2) =>
        LET m == result.metrics IN
        /\ m.lsb_ideal.eps \/ (m.lsb_ideal.val.n # 0 /\ m.lsb_ideal.val.d # 0)
        /\ \A k \in 1..Len(args.x) :
              /\ m.inl[k].fin.d # 0 /\ m.inl[k].big.d # 0
              /\ m.dnl[k].fin.d # 0 /\ m.dnl[k].big.d # 0

\* a moving commanded series whose fitted gain is 0, analysed with 1e-9
C24_Witness ==
    /\ Analyzed /\ Len(args.x) = 3 /\ args.x[1] # args.x[2]
    /\ result.metrics.gain = Frac(0, 1)
    /\ result.metrics.lsb_ideal.eps
    /\ result.metrics.inl[2].big # Frac(0, 1)

C26_SkippedLookupIsLogged ==
    result.by \in {"check_current_limits", "check_power_limits"} =>
        \A k \in 1..Len(args.limits) :
            (args.limits[k].channel_ok /\ args.insts[args.limits[k].instrument] = "absent")
            => /\ \E j \in 1..Len(result.rows) :
                     result.rows[j].k = k /\ result.rows[j].status = "N/A"
               /\ ~\E j \in 1..Len(result.rows) :
                     result.rows[j].k = k /\ result.rows[j].status # "N/A"

C31_FailedMeasurementSurfaced ==
    (result.by = "measure_current" /\ args.connected) =>
        /\ result.queries = 1
        /\ args.query_fails => (result.status = "error" /\ result.rows = <<>>)

\* C36: the groups that start at channels 0, 4, ..., 28 partition the 32
\* channels into 8 groups of 4 with pairwise different (chip, register) pairs,
\* chip 0 for channels 0..15 and chip 1 for 16..31, register
\* 13 - (i mod 16) div 4; and nibble j of a group's gear word is the code of
\* its j-th channel's range (2.5 V 14, 5 V 9, 10 V 10, 20 V 12), from which the
\* range is read back.
C36_GearWord ==
    result.by = "calculate_gear_code" =>
        LET nibble(j) == (result.value \div (16 ^ j)) % 16
            range_of(c) == CASE c = 14 -> 10 [] c = 9 -> 20 [] c = 10 -> 40
                             [] c = 12 -> 80 [] OTHER -> 0
        IN
        /\ \A j \in 0..3 :
               args.gears[j + 1] \in DacRanges =>
                   /\ nibble(j) \in {14, 9, 10, 12}
                   /\ range_of(nibble(j)) = args.gears[j + 1]
        /\ result.value \in 0..65535
        /\ result.group.dac_chip_num = (IF args.i <= 15 THEN 0 ELSE 1)
        /\ result.group.register_addr \in 10..13
        /\ result.group.register_addr = 13 - ((args.i % 16) \div 4)
        /\ \A a, b \in GroupStarts :
               a # b =>
                   /\ range_group(a).channels \cap range_group(b).channels = {}
                   /\ <<range_group(a).dac_chip_num, range_group(a).register_addr>>
                        # <<range_group(b).dac_chip_num, range_group(b).register_addr>>
        /\ UNION {range_group(a).channels : a \in GroupStarts} = 0..31
        /\ Cardinality(GroupStarts) = 8

\* the range command of channels 20..23 with ranges 2.5, 5, 10 and 20 V:
\* chip 1, register 12, word 0xCA9E
C36_Witness ==
    /\ result.by = "calculate_gear_code"
    /\ args.i = 20 /\ args.gears = <<10, 20, 40, 80>>
    /\ result.value = 51870
    /\ result.group.dac_chip_num = 1 /\ result.group.register_addr = 12

\* C40: every run of a power worker emits finished once, whatever the
\* configuration: none, items with a missing key, a voltage that is not a
\* number, an unknown alias, a supply that does not connect, a stop request.
C40_FinishedEmittedOnce ==
    result.by = "PowerWorker_run" =>
        /\ result.value = 1
        /\ result.status \in {"False", "True"}

\* C21: for every stage the amplitude is at most 0.5 V, start = -amplitude,
\* points = 101, step = 2 * amplitude / 100, a clamped stage is started all
\* the same, and the sweep the scan runs goes from -amplitude to +amplitude.
C21_SweepSymmetric ==
    result.by = "calculate_scan_params" =>
        LET p    == result.params
            f    == result.fields
            raw  == v_in_amp_of(gain_map(args.stage_index))
            amp  == IF raw > VIN_SAFETY_LIMIT THEN VIN_SAFETY_LIMIT ELSE raw
        IN /\ amp <= VIN_SAFETY_LIMIT
           /\ p.start_v = -amp /\ p.points = 101 /\ p.step_v = 2 * amp
           /\ result.status = "started"
           /\ \A i \in 0..100 : current_val(f, i) <= VIN_SAFETY_LIMIT \div 100
                                /\ current_val(f, i) >= -(VIN_SAFETY_LIMIT \div 100)
           /\ current_val(f, 100) = -current_val(f, 0)

====
